---- MODULE Spec2Model ----
(***************************************************************************)
(* InvestWise: the heuristic market-condition classifier                   *)
(* (server/services/market.ts, server/services/prediction.ts) and the two  *)
(* portfolio-allocation optimizers (client mcp/utils.ts and                *)
(* server/services/prediction.ts).                                         *)
(*                                                                         *)
(* Numbers with a fractional part are scaled to integers:                  *)
(*   percentage changes and sentiment scores by 10  (1.5 -> 15),           *)
(*   confidences by 1000                            (0.4 -> 400),          *)
(*   signal weights by 10                           (1.2 -> 12).           *)
(* The volatility index and the allocation percentages are integers.       *)
(***************************************************************************)
EXTENDS Integers, FiniteSets, Sequences, TLC

VARIABLES
    pc,                 \* position of determineMarketCondition
    vixValue,           \* parameter vixValue
    mainIndexChange,    \* parameter mainIndexChange (x10)
    historicalStatus,   \* outcome of yahooFinance.historical
    sentimentStatus,    \* outcome of yahooFinance.quoteSummary
    marketPrediction,   \* local marketPrediction: [trend, confidence]
    sentimentAnalysis,  \* local sentimentAnalysis: [score, confidence]
    signals,            \* locals vixSignal, predictionSignal, sentimentSignal, currentSignal
    scores,             \* locals bearishScore, bullishScore, neutralScore
    condition           \* the MarketCondition returned

classifierVars == <<pc, vixValue, mainIndexChange, historicalStatus, sentimentStatus,
                    marketPrediction, sentimentAnalysis, signals, scores, condition>>

VARIABLES
    apc,                \* position of the optimizer invocation
    entry,              \* which entry point was invoked
    riskProfile,        \* argument riskProfile
    marketCondition,    \* argument marketCondition
    base,               \* local base
    adjustment,         \* local adjustment
    adjusted,           \* local adjusted / optimizedAllocation (after clamping)
    rounded,            \* the buckets after Math.round, before the final adjustment
    allocation,         \* the allocation returned
    expectedReturn,     \* server: expectedReturn (x100)
    riskLevel,          \* server: riskLevel (x100)
    outcome             \* "none", "ok", "http400", "throws"

allocVars == <<apc, entry, riskProfile, marketCondition, base, adjustment,
               adjusted, rounded, allocation, expectedReturn, riskLevel, outcome>>

VARIABLES
    gpc,                \* position of getMarketCondition
    marketData          \* the MarketData getMarketCondition settles with

marketVars == <<gpc, marketData>>

VARIABLES
    vpc,                \* position of the advisor's getInvestmentAdvice
    request,            \* its arguments: user.riskProfile, marketCondition, kind of query
    calls,              \* the provider calls made so far and how they ended
    advice              \* the InvestmentResponse the advisor settles with

adviceVars == <<vpc, request, calls, advice>>

VARIABLES
    pmodel,             \* the protocol's model (PortfolioModel)
    pcontext,           \* the protocol's context (PortfolioContext)
    listeners,          \* the protocol's listeners array
    handles,            \* the unsubscribe functions returned so far
    last                \* the last call on the protocol and the listener calls it made

protocolVars == <<pmodel, pcontext, listeners, handles, last>>

VARIABLES
    entities,           \* FSModel.entities: the entities by key
    created,            \* how many ids generateId has produced for new entities
    fsLast              \* the last model operation and its arguments

entityVars == <<entities, created, fsLast>>

VARIABLES
    sdata,              \* MemStorage's this.data: users and currentId
    sfile,              \* the content of the storage file
    lpc,                \* position of the constructor's loadData
    loaded,             \* what loadData's readFile has read
    pending,            \* the createUser call waiting for its saveData
    resolved,           \* the users createUser has resolved with
    issued,             \* how many createUser calls have been made
    lastRead            \* the last getUser or getAllUsers and its result

storageVars == <<sdata, sfile, lpc, loaded, pending, resolved, issued, lastRead>>

\* the state of the client components and of the storage
componentVars == <<protocolVars, entityVars, storageVars>>

vars == <<classifierVars, allocVars, marketVars, adviceVars, componentVars>>

(***************************************************************************)
(* Bounds of the explored inputs.                                          *)
(***************************************************************************)
MaxRawScore == 12       \* largest magnitude of the sentiment library's raw score
MaxTextLen == 2000      \* longest analysed text
MaxK == 2               \* synthetic deltas range over -MaxK*15 .. MaxK*15
NormSpan == 3           \* clamped values lie within NormSpan of an end of their range

Labels == {"bearish", "neutral", "bullish"}
None == "none"

Max(a, b) == IF a > b THEN a ELSE b
Min(a, b) == IF a < b THEN a ELSE b

\* Math.round of the non-negative rational n/d: floor(n/d + 1/2)
MathRound(n, d) == (2 * n + d) \div (2 * d)

(***************************************************************************)
(* Inputs of the classifier.                                               *)
(***************************************************************************)
VixValues == {10, 14, 15, 20, 25, 26, 30}
ChangeValues == {-20, -11, -10, 0, 10, 11, 20}
\* percentChange of the regression forecast (x10) and rSquared (x1000)
RegressionChanges == {-20, -15, 0, 15, 20}
RSquaredValues == {-200, 400, 401, 1200}
\* percentChange of the random walk of generateSimplePrediction (x10)
WalkChanges == {-49, -5, 0, 5, 6, 50}
QuotePrices == {0, 100}
RawScores == {-MaxRawScore, -4, -3, 0, 3, 4, MaxRawScore}
TextLens == {91, 400, 401, MaxTextLen}

(***************************************************************************)
(* prediction.ts                                                           *)
(***************************************************************************)
RegressionTrendUp == 15
RegressionTrendDown == -15
SimpleTrendUp == 5
SimpleTrendDown == -5
SimpleConfidence == 300

\* predictMarketMovement, lines 63-79: the regression succeeded
regressionPrediction(percentChange, rSquared) ==
    [trend |-> IF percentChange > RegressionTrendUp THEN "up"
               ELSE IF percentChange < RegressionTrendDown THEN "down"
               ELSE "sideways",
     confidence |-> Max(0, Min(1000, rSquared))]

\* simplePrediction reporting a confidence of 0.5
simplePredictionConfident(currentPrice, walkChange) ==
    LET percentChange == IF currentPrice # 0 THEN walkChange ELSE 0
    IN  [trend |-> IF percentChange > SimpleTrendUp THEN "up"
                   ELSE IF percentChange < SimpleTrendDown THEN "down"
                   ELSE "sideways",
         confidence |-> 500]

\* generateSimplePrediction, lines 94-123: the quote succeeded
simplePrediction(currentPrice, walkChange) ==
    LET percentChange == IF currentPrice # 0 THEN walkChange ELSE 0
    IN  [trend |-> IF percentChange > SimpleTrendUp THEN "up"
                   ELSE IF percentChange < SimpleTrendDown THEN "down"
                   ELSE "sideways",
         confidence |-> SimpleConfidence]

\* generateSimplePrediction, lines 124-132: the quote failed
emergencyPrediction == [trend |-> "sideways", confidence |-> 0]

\* analyzeNewsSentiment, lines 158-179
newsSentiment(rawScore, textLen) ==
    [score |-> Max(-50, Min(50, rawScore * 5)),
     confidence |-> Min(1000, textLen)]

\* analyzeNewsSentiment, lines 180-187
failedSentiment == [score |-> 0, confidence |-> 0]

(***************************************************************************)
(* market.ts: determineMarketCondition                                     *)
(***************************************************************************)
VixBearish == 25
VixBullish == 15
ConfidenceThreshold == 400
SentimentBullish == 15
SentimentBearish == -15
ChangeBullish == 10
ChangeBearish == -10

vixSignal(v) ==
    IF v > VixBearish THEN "bearish"
    ELSE IF v < VixBullish THEN "bullish"
    ELSE "neutral"

\* predictionSignal with the confidence compared by >= instead of >
predictionSignalAtLeast(p) ==
    IF p.trend = "up" /\ p.confidence >= ConfidenceThreshold THEN "bullish"
    ELSE IF p.trend = "down" /\ p.confidence >= ConfidenceThreshold THEN "bearish"
    ELSE "neutral"

predictionSignal(p) ==
    IF p.trend = "up" /\ p.confidence > ConfidenceThreshold THEN "bullish"
    ELSE IF p.trend = "down" /\ p.confidence > ConfidenceThreshold THEN "bearish"
    ELSE "neutral"

sentimentSignal(s) ==
    IF s.score > SentimentBullish /\ s.confidence > ConfidenceThreshold THEN "bullish"
    ELSE IF s.score < SentimentBearish /\ s.confidence > ConfidenceThreshold THEN "bearish"
    ELSE "neutral"

currentSignal(c) ==
    IF c > ChangeBullish THEN "bullish"
    ELSE IF c < ChangeBearish THEN "bearish"
    ELSE "neutral"

\* weights with every signal counted as one vote
weightsUnweighted == [vix |-> 10, prediction |-> 10, sentiment |-> 10, current |-> 10]

\* weights with the sentiment weight typed as 0.5
weightsLightSentiment == [vix |-> 10, prediction |-> 15, sentiment |-> 5, current |-> 12]

\* the weights of the signals array, lines 120-125 (x10)
weights == [vix |-> 10, prediction |-> 15, sentiment |-> 10, current |-> 12]

\* contribution with the last else lost: the neutral score is raised by every
\* signal that is not bullish
contributionMissingElse(sig, type, l) ==
    IF l = "bearish" THEN (IF sig[type] = "bearish" THEN weights[type] ELSE 0)
    ELSE IF l = "bullish" THEN (IF sig[type] = "bullish" THEN weights[type] ELSE 0)
    ELSE (IF sig[type] # "bullish" THEN weights[type] ELSE 0)

\* signals.forEach, lines 128-136: the weight a signal adds to the score of label l
contribution(sig, type, l) ==
    LET bucket == IF sig[type] = "bearish" THEN "bearish"
                  ELSE IF sig[type] = "bullish" THEN "bullish"
                  ELSE "neutral"
    IN  IF bucket = l THEN weights[type] ELSE 0

weightedScores(sig) ==
    [l \in Labels |->
        contribution(sig, "vix", l) + contribution(sig, "prediction", l)
        + contribution(sig, "sentiment", l) + contribution(sig, "current", l)]

\* finalCondition without the comparisons against the neutral score
finalConditionIgnoresNeutral(sc) ==
    IF sc["bearish"] > sc["bullish"] THEN "bearish"
    ELSE IF sc["bullish"] > sc["bearish"] THEN "bullish"
    ELSE "neutral"

\* lines 144-151
finalCondition(sc) ==
    IF sc["bearish"] > sc["bullish"] /\ sc["bearish"] > sc["neutral"] THEN "bearish"
    ELSE IF sc["bullish"] > sc["bearish"] /\ sc["bullish"] > sc["neutral"] THEN "bullish"
    ELSE "neutral"

\* the catch block, lines 152-175
FallbackVixChangeBearish == -5
FallbackVixChangeBullish == 5

\* fallbackCondition deciding on the volatility alone outside the neutral band
fallbackConditionVixAlone(v, c) ==
    IF v > VixBearish THEN "bearish"
    ELSE IF v < VixBullish THEN "bullish"
    ELSE IF c > ChangeBullish THEN "bullish"
    ELSE IF c < ChangeBearish THEN "bearish"
    ELSE "neutral"

fallbackCondition(v, c) ==
    IF v > VixBearish
    THEN IF c < FallbackVixChangeBearish THEN "bearish" ELSE "neutral"
    ELSE IF v < VixBullish
    THEN IF c > FallbackVixChangeBullish THEN "bullish" ELSE "neutral"
    ELSE IF c > ChangeBullish THEN "bullish"
    ELSE IF c < ChangeBearish THEN "bearish"
    ELSE "neutral"

NoPrediction == [trend |-> None, confidence |-> 0]
NoSentiment == [score |-> 0, confidence |-> 0]
NoSignals == [vix |-> None, prediction |-> None, sentiment |-> None, current |-> None]
NoScores == [l \in Labels |-> 0]

ClassifierIdle ==
    /\ pc = "idle"
    /\ vixValue = 0
    /\ mainIndexChange = 0
    /\ historicalStatus = None
    /\ sentimentStatus = None
    /\ marketPrediction = NoPrediction
    /\ sentimentAnalysis = NoSentiment
    /\ signals = NoSignals
    /\ scores = NoScores
    /\ condition = None

\* getMarketCondition line 251: determineMarketCondition(vixValue, mainIndexChange, symbol)
Call(v, c) ==
    /\ pc = "idle"
    /\ pc' = "predict"
    /\ vixValue' = v
    /\ mainIndexChange' = c
    /\ UNCHANGED <<historicalStatus, sentimentStatus, marketPrediction,
                   sentimentAnalysis, signals, scores, condition>>

\* line 68: await predictMarketMovement(mainIndexSymbol, 5), the regression path
PredictRegression ==
    /\ pc = "predict"
    /\ \E pct \in RegressionChanges, r2 \in RSquaredValues :
          marketPrediction' = regressionPrediction(pct, r2)
    /\ historicalStatus' = "ok"
    /\ pc' = "sentiment"
    /\ UNCHANGED <<vixValue, mainIndexChange, sentimentStatus, sentimentAnalysis,
                   signals, scores, condition>>

\* line 68: predictMarketMovement hands over to generateSimplePrediction, because
\* the history is too short (lines 32-35) or the trend source threw (lines 80-83)
PredictSimple ==
    /\ pc = "predict"
    /\ \E st \in {"insufficient", "throws"} : historicalStatus' = st
    /\ \/ \E price \in QuotePrices, walk \in WalkChanges :
             marketPrediction' = simplePrediction(price, walk)
       \/ marketPrediction' = emergencyPrediction
    /\ pc' = "sentiment"
    /\ UNCHANGED <<vixValue, mainIndexChange, sentimentStatus, sentimentAnalysis,
                   signals, scores, condition>>

\* line 71: await analyzeNewsSentiment(mainIndexSymbol)
AnalyzeNewsSentiment ==
    /\ pc = "sentiment"
    /\ \/ /\ sentimentStatus' = "ok"
          /\ \E raw \in RawScores, len \in TextLens :
                sentimentAnalysis' = newsSentiment(raw, len)
       \/ /\ sentimentStatus' = "throws"
          /\ sentimentAnalysis' = failedSentiment
    /\ pc' = "classify"
    /\ UNCHANGED <<vixValue, mainIndexChange, historicalStatus, marketPrediction,
                   signals, scores, condition>>

\* lines 87-151: the four signals, the weighted scores and the returned label
Classify ==
    /\ pc = "classify"
    /\ LET sig == [vix |-> vixSignal(vixValue),
                   prediction |-> predictionSignal(marketPrediction),
                   sentiment |-> sentimentSignal(sentimentAnalysis),
                   current |-> currentSignal(mainIndexChange)]
       IN  /\ signals' = sig
           /\ scores' = weightedScores(sig)
           /\ condition' = finalCondition(weightedScores(sig))
    /\ pc' = "done"
    /\ UNCHANGED <<vixValue, mainIndexChange, historicalStatus, sentimentStatus,
                   marketPrediction, sentimentAnalysis>>

\* an invocation whose try block is left by an exception: an awaited
\* predictMarketMovement that rejects (line 68 to line 152)
FallbackChanges == ChangeValues \cup {-6, -5, 5, 6}

Rejected(v, c) ==
    /\ pc = "idle"
    /\ pc' = "catch"
    /\ vixValue' = v
    /\ mainIndexChange' = c
    /\ historicalStatus' = "rejects"
    /\ UNCHANGED <<sentimentStatus, marketPrediction, sentimentAnalysis,
                   signals, scores, condition>>

\* the catch block, lines 152-175
CatchFallback ==
    /\ pc = "catch"
    /\ condition' = fallbackCondition(vixValue, mainIndexChange)
    /\ pc' = "done"
    /\ UNCHANGED <<vixValue, mainIndexChange, historicalStatus, sentimentStatus,
                   marketPrediction, sentimentAnalysis, signals, scores>>

\* the promise resolves; the locals go out of scope
Return ==
    /\ pc = "done"
    /\ pc' = "idle"
    /\ vixValue' = 0
    /\ mainIndexChange' = 0
    /\ historicalStatus' = None
    /\ sentimentStatus' = None
    /\ marketPrediction' = NoPrediction
    /\ sentimentAnalysis' = NoSentiment
    /\ signals' = NoSignals
    /\ scores' = NoScores
    /\ condition' = None

(***************************************************************************)
(* market.ts: getMarketCondition and determineMarketTrend                  *)
(***************************************************************************)
Trends == {"up", "down", "sideways"}

TrendConfidence == 500
TrendUp == 5
TrendDown == -5
MaxIndices == 3

\* regularMarketPrice || 0 and regularMarketChangePercent || 0 of the quotes
MarketVixValues == {0, 20, 30}
MarketChangeValues == {-20, -6, 0, 6, 20}

NoMarketData ==
    [settled |-> None, condition |-> None, trend |-> None, localIndices |-> 0]

MarketIdle ==
    /\ gpc = "idle"
    /\ marketData = NoMarketData

\* determineMarketTrend, lines 184-199
marketTrend(prediction, change) ==
    IF prediction.confidence > TrendConfidence THEN prediction.trend
    ELSE IF change > TrendUp THEN "up"
    ELSE IF change < TrendDown THEN "down"
    ELSE "sideways"

\* the default data of the catch block, lines 264-278
defaultMarketData ==
    [settled |-> "resolved", condition |-> "neutral", trend |-> "sideways",
     localIndices |-> 2]

\* a route awaits getMarketCondition(locale)
GetMarketCondition ==
    /\ gpc = "idle"
    /\ gpc' = "quote"
    /\ UNCHANGED marketData

\* getMarketCondition without its outer try/catch: the quote failure rejects
QuoteThrowsUncaught ==
    /\ gpc = "quote"
    /\ marketData' = [NoMarketData EXCEPT !.settled = "rejected"]
    /\ gpc' = "done"

\* lines 225-231 and 264-278: the quote of the volatility index or of the main
\* index throws; the catch block answers with the default data
QuoteThrows ==
    /\ gpc = "quote"
    /\ marketData' = defaultMarketData
    /\ gpc' = "done"

\* lines 225-251: both quotes succeed, n of the additional indices are
\* pushed (a failing one is skipped), determineMarketCondition is called
QuoteOk(v, c, n) ==
    /\ gpc = "quote"
    /\ Call(v, c)
    /\ marketData' = [marketData EXCEPT !.localIndices = n]
    /\ gpc' = "condition"

\* lines 225-251 with an await inside determineMarketCondition rejecting:
\* control enters its catch block, lines 152-175
QuoteOkRejected(v, c, n) ==
    /\ gpc = "quote"
    /\ Rejected(v, c)
    /\ marketData' = [marketData EXCEPT !.localIndices = n]
    /\ gpc' = "condition"

\* line 251: determineMarketCondition resolved; its locals go out of scope,
\* vixValue and mainIndexChange stay as locals of getMarketCondition
ConditionReturned ==
    /\ gpc = "condition"
    /\ pc = "done"
    /\ marketData' = [marketData EXCEPT !.condition = condition]
    /\ gpc' = "trend"
    /\ pc' = "idle"
    /\ historicalStatus' = None
    /\ sentimentStatus' = None
    /\ marketPrediction' = NoPrediction
    /\ sentimentAnalysis' = NoSentiment
    /\ signals' = NoSignals
    /\ scores' = NoScores
    /\ condition' = None
    /\ UNCHANGED <<vixValue, mainIndexChange>>

\* lines 252-263: determineMarketTrend with the prediction that
\* predictMarketMovement resolves with, then the MarketData is returned
DetermineMarketTrend ==
    /\ gpc = "trend"
    /\ \E prediction \in
            {regressionPrediction(pct, r2) : pct \in RegressionChanges, r2 \in RSquaredValues}
            \cup {simplePrediction(price, walk) : price \in QuotePrices, walk \in WalkChanges}
            \cup {emergencyPrediction} :
          marketData' = [marketData EXCEPT
                            !.trend = marketTrend(prediction, mainIndexChange),
                            !.settled = "resolved"]
    /\ gpc' = "done"
    /\ UNCHANGED classifierVars

\* the caller has the MarketData
MarketReturn ==
    /\ gpc = "done"
    /\ gpc' = "idle"
    /\ marketData' = NoMarketData
    /\ pc' = "idle"
    /\ vixValue' = 0
    /\ mainIndexChange' = 0
    /\ UNCHANGED <<historicalStatus, sentimentStatus, marketPrediction,
                   sentimentAnalysis, signals, scores, condition>>

(***************************************************************************)
(* client mcp/utils.ts: calculateOptimalAllocation                         *)
(***************************************************************************)
RiskProfiles == {"conservative", "moderate", "aggressive"}

\* what a caller may pass: the enum values, another string, or nothing
RiskInputs == RiskProfiles \cup {"unknown", "missing"}
ConditionInputs == Labels \cup {"unknown", "missing"}

Buckets(e, d, g, c) == [equity |-> e, debt |-> d, gold |-> g, cash |-> c]

\* clientBaseAllocations with the moderate row of the server table
clientBaseAllocationsServerRow ==
    [conservative |-> Buckets(30, 45, 15, 10),
     moderate |-> Buckets(50, 30, 10, 10),
     aggressive |-> Buckets(70, 15, 10, 5)]

clientBaseAllocations ==
    [conservative |-> Buckets(30, 45, 15, 10),
     moderate |-> Buckets(50, 30, 12, 8),
     aggressive |-> Buckets(70, 15, 10, 5)]

\* clientMarketAdjustments with the bearish gold delta off by one
clientMarketAdjustmentsOffByOne ==
    [bullish |-> Buckets(10, -5, -3, -2),
     bearish |-> Buckets(-15, 8, 6, 2),
     neutral |-> Buckets(0, 0, 0, 0)]

clientMarketAdjustments ==
    [bullish |-> Buckets(10, -5, -3, -2),
     bearish |-> Buckets(-15, 8, 5, 2),
     neutral |-> Buckets(0, 0, 0, 0)]

EquityMin == 10
EquityMax == 90
DebtMin == 10
DebtMax == 70
GoldMin == 0
GoldMax == 30
CashMin == 0
CashMax == 30

\* clientClamp with the debt ceiling typed as 50
clientClampDebt50(b, a) ==
    Buckets(Max(EquityMin, Min(EquityMax, b.equity + a.equity)),
            Max(DebtMin, Min(50, b.debt + a.debt)),
            Max(GoldMin, Min(GoldMax, b.gold + a.gold)),
            Max(CashMin, Min(CashMax, b.cash + a.cash)))

\* clientClamp with the bounds of the server variant, [0, 100] for every bucket
clientClampServerBounds(b, a) ==
    Buckets(Max(0, Min(100, b.equity + a.equity)),
            Max(0, Min(100, b.debt + a.debt)),
            Max(0, Min(100, b.gold + a.gold)),
            Max(0, Min(100, b.cash + a.cash)))

\* lines 47-52
clientClamp(b, a) ==
    Buckets(Max(EquityMin, Min(EquityMax, b.equity + a.equity)),
            Max(DebtMin, Min(DebtMax, b.debt + a.debt)),
            Max(GoldMin, Min(GoldMax, b.gold + a.gold)),
            Max(CashMin, Min(CashMax, b.cash + a.cash)))

clientTotal(x) == x.equity + x.debt + x.gold + x.cash

\* lines 55-63: factor = 100 / total, Math.round(bucket * factor)
clientRound(x) ==
    LET total == clientTotal(x)
    IN  Buckets(MathRound(x.equity * 100, total), MathRound(x.debt * 100, total),
                MathRound(x.gold * 100, total), MathRound(x.cash * 100, total))

\* clientFinal with the cash term dropped from the final total
clientFinalDropsCash(x) ==
    LET finalTotal == x.equity + x.debt + x.gold
    IN  IF finalTotal # 100
        THEN [x EXCEPT !.equity = x.equity + (100 - finalTotal)]
        ELSE x

\* clientFinal without the final adjustment
clientFinalNoResidual(x) == x

\* clientFinal giving the residual to the largest bucket
clientFinalLargest(x) ==
    LET finalTotal == x.equity + x.debt + x.gold + x.cash
        residual == 100 - finalTotal
    IN  IF finalTotal = 100 THEN x
        ELSE IF x.equity >= x.debt /\ x.equity >= x.gold /\ x.equity >= x.cash
        THEN [x EXCEPT !.equity = x.equity + residual]
        ELSE IF x.debt >= x.gold /\ x.debt >= x.cash
        THEN [x EXCEPT !.debt = x.debt + residual]
        ELSE IF x.gold >= x.cash
        THEN [x EXCEPT !.gold = x.gold + residual]
        ELSE [x EXCEPT !.cash = x.cash + residual]

\* lines 66-69
clientFinal(x) ==
    LET finalTotal == clientTotal(x)
    IN  IF finalTotal # 100
        THEN [x EXCEPT !.equity = x.equity + (100 - finalTotal)]
        ELSE x

(***************************************************************************)
(* portfolio/advanced: model.ts and protocol.ts                            *)
(***************************************************************************)
MaxSubscribes == 2
MaxAssets == 5

\* utils.ts lines 24-72 as one function of its two arguments
calculateOptimalAllocation(r, c) ==
    clientFinal(clientRound(clientClamp(clientBaseAllocations[r],
                                        clientMarketAdjustments[c])))

\* model.ts lines 193-197
DEFAULT_ALLOCATIONS ==
    [conservative |-> Buckets(30, 45, 15, 10),
     moderate |-> Buckets(50, 30, 12, 8),
     aggressive |-> Buckets(70, 15, 10, 5)]

UserId == 1

Asset(id, type, a) == [id |-> id, type |-> type, allocation |-> a]

\* createPortfolioModel(userId, riskProfile) without options, lines 200-252;
\* a1..a4 stand for the four generated ids
createPortfolioModel(r) ==
    LET baseAllocation == DEFAULT_ALLOCATIONS[r]
    IN  [userId |-> UserId,
         riskProfile |-> r,
         baseAllocation |-> baseAllocation,
         currentAllocation |-> baseAllocation,
         assets |-> << Asset("a1", "equity", baseAllocation.equity),
                       Asset("a2", "debt", baseAllocation.debt),
                       Asset("a3", "gold", baseAllocation.gold),
                       Asset("a4", "cash", baseAllocation.cash) >>]

\* protocol.ts lines 5-11
createDefaultContext ==
    [marketCondition |-> "neutral", userAge |-> "null", userGoals |-> "null"]

\* the assets.map of optimizePortfolio, rebalancePortfolio and
\* changeRiskProfile: every asset takes the bucket of its type
matchAssets(assets, a) ==
    [i \in 1..Len(assets) |-> [assets[i] EXCEPT !.allocation = a[assets[i].type]]]

\* optimizePortfolio that leaves the assets as they are
optimizePortfolioKeepsAssets(m, c) ==
    LET newBaseAllocation == calculateOptimalAllocation(m.riskProfile, c)
    IN  [m EXCEPT !.baseAllocation = newBaseAllocation,
                  !.currentAllocation = newBaseAllocation]

\* model.ts lines 257-283
optimizePortfolio(m, c) ==
    LET newBaseAllocation == calculateOptimalAllocation(m.riskProfile, c)
    IN  [m EXCEPT !.baseAllocation = newBaseAllocation,
                  !.currentAllocation = newBaseAllocation,
                  !.assets = matchAssets(m.assets, newBaseAllocation)]

\* model.ts lines 286-309
rebalancePortfolio(m, targetAllocation) ==
    [m EXCEPT !.currentAllocation = targetAllocation,
              !.assets = matchAssets(m.assets, targetAllocation)]

\* model.ts lines 312-317
addAsset(m, asset) == [m EXCEPT !.assets = Append(m.assets, asset)]

\* model.ts lines 320-325
removeAsset(m, assetId) ==
    [m EXCEPT !.assets = SelectSeq(m.assets, LAMBDA asset : asset.id # assetId)]

\* the reduce of updateAssetAllocation: a bucket is the allocation of the
\* last asset of its type, 0 without one
RECURSIVE reduceAllocation(_, _)
reduceAllocation(assets, acc) ==
    IF assets = <<>> THEN acc
    ELSE reduceAllocation(Tail(assets),
                          [acc EXCEPT ![Head(assets).type] = Head(assets).allocation])

\* model.ts lines 328-357
updateAssetAllocation(m, assetId, newAllocation) ==
    LET newAssets == [i \in 1..Len(m.assets) |->
                         IF m.assets[i].id = assetId
                         THEN [m.assets[i] EXCEPT !.allocation = newAllocation]
                         ELSE m.assets[i]]
    IN  [m EXCEPT !.currentAllocation = reduceAllocation(newAssets, Buckets(0, 0, 0, 0)),
                  !.assets = newAssets]

\* model.ts lines 360-385
changeRiskProfile(m, r) ==
    LET newBaseAllocation == DEFAULT_ALLOCATIONS[r]
    IN  [m EXCEPT !.riskProfile = r,
                  !.baseAllocation = newBaseAllocation,
                  !.currentAllocation = newBaseAllocation,
                  !.assets = matchAssets(m.assets, newBaseAllocation)]

Listeners == {"l1", "l2"}

KnownActions ==
    {"OPTIMIZE_PORTFOLIO", "REBALANCE_PORTFOLIO", "ADD_ASSET", "REMOVE_ASSET",
     "UPDATE_ASSET_ALLOCATION", "CHANGE_RISK_PROFILE"}

\* a PortfolioAction; the payload fields an action type does not have keep
\* the values of NoPayload
NoPayload ==
    [type |-> None, marketCondition |-> None, riskProfile |-> None,
     targetAllocation |-> Buckets(0, 0, 0, 0), asset |-> Asset(None, None, 0),
     assetId |-> None, allocation |-> 0]

Optimize(c) == [NoPayload EXCEPT !.type = "OPTIMIZE_PORTFOLIO", !.marketCondition = c]
Rebalance(t) == [NoPayload EXCEPT !.type = "REBALANCE_PORTFOLIO", !.targetAllocation = t]
AddAsset(a) == [NoPayload EXCEPT !.type = "ADD_ASSET", !.asset = a]
RemoveAsset(id) == [NoPayload EXCEPT !.type = "REMOVE_ASSET", !.assetId = id]
UpdateAsset(id, a) ==
    [NoPayload EXCEPT !.type = "UPDATE_ASSET_ALLOCATION", !.assetId = id, !.allocation = a]
ChangeRisk(r) == [NoPayload EXCEPT !.type = "CHANGE_RISK_PROFILE", !.riskProfile = r]
UnknownAction == [NoPayload EXCEPT !.type = "RESET_PORTFOLIO"]

\* the switch of dispatch without its notification, lines 36-88: the model
dispatchModel(m, action) ==
    CASE action.type = "OPTIMIZE_PORTFOLIO" -> optimizePortfolio(m, action.marketCondition)
      [] action.type = "REBALANCE_PORTFOLIO" -> rebalancePortfolio(m, action.targetAllocation)
      [] action.type = "ADD_ASSET" -> addAsset(m, action.asset)
      [] action.type = "REMOVE_ASSET" -> removeAsset(m, action.assetId)
      [] action.type = "UPDATE_ASSET_ALLOCATION" ->
            updateAssetAllocation(m, action.assetId, action.allocation)
      [] action.type = "CHANGE_RISK_PROFILE" -> changeRiskProfile(m, action.riskProfile)
      [] OTHER -> m

\* lines 43-46: the context
dispatchContext(ctx, action) ==
    IF action.type = "OPTIMIZE_PORTFOLIO"
    THEN [ctx EXCEPT !.marketCondition = action.marketCondition]
    ELSE ctx

\* getState, lines 23-26
getState(m, ctx) == [model |-> m, context |-> ctx]

NoState == getState(createPortfolioModel("moderate"), createDefaultContext)

Occurrences(ls, l) == Cardinality({i \in 1..Len(ls) : ls[i] = l})

\* the unsubscribe function, lines 101-106: indexOf and splice
removeFirst(ls, l) ==
    IF \E i \in 1..Len(ls) : ls[i] = l
    THEN LET index == CHOOSE i \in 1..Len(ls) :
                          ls[i] = l /\ \A j \in 1..(i - 1) : ls[j] # l
         IN  SubSeq(ls, 1, index - 1) \o SubSeq(ls, index + 1, Len(ls))
    ELSE ls

\* forEach that starts at the second element
RECURSIVE forEachFromSecond(_, _, _, _, _)
forEachFromSecond(ls, k, len, unsubscribing, invoked) ==
    IF k = 0 THEN forEachFromSecond(ls, 1, len, unsubscribing, invoked)
    ELSE IF k >= len THEN [listeners |-> ls, invoked |-> invoked]
    ELSE IF k >= Len(ls) THEN forEachFromSecond(ls, k + 1, len, unsubscribing, invoked)
    ELSE forEachFromSecond(IF ls[k + 1] \in unsubscribing
                           THEN removeFirst(ls, ls[k + 1]) ELSE ls,
                           k + 1, len, unsubscribing, Append(invoked, ls[k + 1]))

\* listeners.forEach of notifyListeners, line 32: Array.prototype.forEach
\* visits the indices 0 .. len-1 of the length it found at the start and
\* skips an index the array no longer has; a listener in unsubscribing calls
\* its own unsubscribe function while it is notified
RECURSIVE forEach(_, _, _, _, _)
forEach(ls, k, len, unsubscribing, invoked) ==
    IF k >= len THEN [listeners |-> ls, invoked |-> invoked]
    ELSE IF k >= Len(ls) THEN forEach(ls, k + 1, len, unsubscribing, invoked)
    ELSE forEach(IF ls[k + 1] \in unsubscribing
                 THEN removeFirst(ls, ls[k + 1]) ELSE ls,
                 k + 1, len, unsubscribing, Append(invoked, ls[k + 1]))

\* the unsubscribe function of a subscription of l has been called: the
\* first handle of l not called yet
markCalled(hs, l) ==
    IF \E i \in 1..Len(hs) : hs[i].listener = l /\ ~hs[i].called
    THEN LET h == CHOOSE i \in 1..Len(hs) :
                      /\ hs[i].listener = l /\ ~hs[i].called
                      /\ \A j \in 1..(i - 1) : ~(hs[j].listener = l /\ ~hs[j].called)
         IN  [hs EXCEPT ![h].called = TRUE]
    ELSE hs

RECURSIVE markUnsubscribed(_, _, _)
markUnsubscribed(hs, invoked, unsubscribing) ==
    IF invoked = <<>> THEN hs
    ELSE markUnsubscribed(IF Head(invoked) \in unsubscribing
                          THEN markCalled(hs, Head(invoked)) ELSE hs,
                          Tail(invoked), unsubscribing)

NoCall ==
    [op |-> None, type |-> None, action |-> NoPayload, handle |-> 0, again |-> FALSE, start |-> <<>>,
     unsubscribing |-> {}, pre |-> NoState, invoked |-> <<>>, delivered |-> NoState]

\* createPortfolioProtocol(createPortfolioModel(userId, r), createDefaultContext()),
\* protocol.ts lines 14-21
CreateProtocol(r) ==
    /\ pmodel' = createPortfolioModel(r)
    /\ pcontext' = createDefaultContext
    /\ listeners' = <<>>
    /\ handles' = <<>>
    /\ last' = NoCall

\* the protocol of a user with the default risk profile
ProtocolCreated ==
    /\ pmodel = createPortfolioModel("moderate")
    /\ pcontext = createDefaultContext
    /\ listeners = <<>>
    /\ handles = <<>>
    /\ last = NoCall

\* subscribe(l), lines 95-107
Subscribe(l) ==
    /\ Len(handles) < MaxSubscribes
    /\ listeners' = Append(listeners, l)
    /\ handles' = Append(handles, [listener |-> l, called |-> FALSE])
    /\ last' = [NoCall EXCEPT !.op = "subscribe", !.handle = Len(handles) + 1,
                              !.start = listeners,
                              !.pre = getState(pmodel, pcontext),
                              !.invoked = <<l>>,
                              !.delivered = getState(pmodel, pcontext)]
    /\ UNCHANGED <<pmodel, pcontext>>

\* a call of the unsubscribe function that the h-th subscribe returned,
\* lines 101-106
Unsubscribe(h) ==
    /\ h \in 1..Len(handles)
    /\ listeners' = removeFirst(listeners, handles[h].listener)
    /\ handles' = [handles EXCEPT ![h].called = TRUE]
    /\ last' = [NoCall EXCEPT !.op = "unsubscribe", !.handle = h,
                              !.again = handles[h].called,
                              !.start = listeners,
                              !.pre = getState(pmodel, pcontext)]
    /\ UNCHANGED <<pmodel, pcontext>>

\* dispatch(action), lines 35-92, with the listeners in unsubscribing
\* calling their own unsubscribe function when they are notified
Dispatch(action, unsubscribing) ==
    /\ action.type = "ADD_ASSET" => Len(pmodel.assets) < MaxAssets
    /\ IF action.type \in KnownActions
       THEN LET model == dispatchModel(pmodel, action)
                context == dispatchContext(pcontext, action)
                run == forEach(listeners, 0, Len(listeners), unsubscribing, <<>>)
            IN  /\ pmodel' = model
                /\ pcontext' = context
                /\ listeners' = run.listeners
                /\ handles' = markUnsubscribed(handles, run.invoked, unsubscribing)
                /\ last' = [NoCall EXCEPT !.op = "dispatch", !.type = action.type,
                                          !.action = action,
                                          !.start = listeners,
                                          !.unsubscribing = unsubscribing,
                                          !.pre = getState(pmodel, pcontext),
                                          !.invoked = run.invoked,
                                          !.delivered = getState(model, context)]
       ELSE /\ last' = [NoCall EXCEPT !.op = "dispatch", !.type = action.type,
                                          !.action = action,
                                      !.start = listeners,
                                      !.pre = getState(pmodel, pcontext)]
            /\ UNCHANGED <<pmodel, pcontext, listeners, handles>>

(***************************************************************************)
(* the file system model: createInitialModel and modelOperations           *)
(***************************************************************************)
MaxOperations == 3

\* a path is the sequence of its segments: '/Documents/Report.pdf' is
\* <<"Documents", "Report.pdf">> and the root's '/' is <<"">>.  The entities
\* object is the sequence of its entries in insertion order, each entry the
\* key with the entity's fields
FSEntity(key, id, name, type, path) ==
    [key |-> key, id |-> id, name |-> name, type |-> type, path |-> path]

RootId == "root"

\* createInitialModel, lines 518-631: the directories are stored under
\* their id; every file is stored under one generateId() and carries
\* another one as its id (k1..k5 and f1..f5)
createInitialModel ==
    << FSEntity(RootId, RootId, "Root", "directory", <<"">>),
       FSEntity("docs", "docs", "Documents", "directory", <<"Documents">>),
       FSEntity("images", "images", "Images", "directory", <<"Images">>),
       FSEntity("projects", "projects", "Projects", "directory", <<"Projects">>),
       FSEntity("k1", "f1", "README.md", "file", <<"README.md">>),
       FSEntity("k2", "f2", "Report.pdf", "file", <<"Documents", "Report.pdf">>),
       FSEntity("k3", "f3", "Budget.xlsx", "file", <<"Documents", "Budget.xlsx">>),
       FSEntity("k4", "f4", "Vacation.jpg", "file", <<"Images", "Vacation.jpg">>),
       FSEntity("k5", "f5", "App.tsx", "file", <<"Projects", "App.tsx">>) >>

\* e.path.startsWith(path + '/')
startsWithSlash(p, prefix) ==
    Len(p) > Len(prefix) /\ SubSeq(p, 1, Len(prefix)) = prefix

hasKey(m, key) == \E i \in 1..Len(m) : m[i].key = key

\* model.entities[key]
entityAt(m, key) == m[CHOOSE i \in 1..Len(m) : m[i].key = key]

\* newEntities[key] = entity: in place for a key the object has, at the end
\* for a new key
setKey(m, key, entity) ==
    IF hasKey(m, key)
    THEN [i \in 1..Len(m) |-> IF m[i].key = key THEN [entity EXCEPT !.key = key] ELSE m[i]]
    ELSE Append(m, [entity EXCEPT !.key = key])

\* delete newEntities[key] for every key in keys
deleteKeys(m, keys) == SelectSeq(m, LAMBDA e : e.key \notin keys)

pathExists(m, path) == \E i \in 1..Len(m) : m[i].path = path

\* generateId for a new entity: n1, n2, ...
NewIds == <<"n1", "n2", "n3", "n4", "n5">>

\* createFile and createDirectory, lines 655-710, when they do not throw
createEntity(m, id, type, parentPath, name) ==
    setKey(m, id, FSEntity(id, id, name, type, Append(parentPath, name)))

\* deleteEntity, lines 713-742, for an id other than the root's
deleteEntity(m, id) ==
    IF ~hasKey(m, id) THEN m
    ELSE LET entity == entityAt(m, id)
             newEntities == deleteKeys(m, {id})
         IN  IF entity.type = "directory"
             THEN deleteKeys(newEntities,
                             {newEntities[i].id : i \in
                                 {j \in 1..Len(newEntities) :
                                     startsWithSlash(newEntities[j].path, entity.path)}})
             ELSE newEntities

\* the forEach of renameEntity and moveEntity over the entities under a
\* directory: each is written under its id with the path prefix replaced
RECURSIVE movedContents(_, _, _, _, _)
movedContents(values, newEntities, id, oldPath, newPath) ==
    IF values = <<>> THEN newEntities
    ELSE LET e == Head(values)
         IN  movedContents(Tail(values),
                           IF e.id # id /\ startsWithSlash(e.path, oldPath)
                           THEN setKey(newEntities, e.id,
                                       [e EXCEPT !.path = newPath
                                           \o SubSeq(e.path, Len(oldPath) + 1, Len(e.path))])
                           ELSE newEntities,
                           id, oldPath, newPath)

\* renameEntity and moveEntity after their checks, lines 745-855: the
\* entity gets its new name and path, the contained entities their new paths
relocate(m, id, newName, newPath) ==
    LET entity == entityAt(m, id)
        updated == setKey(m, id, [entity EXCEPT !.name = newName, !.path = newPath])
    IN  IF entity.type = "directory"
        THEN movedContents(m, updated, id, entity.path, newPath)
        ELSE updated

NoOperation ==
    [op |-> None, id |-> None, type |-> None, path |-> <<>>, threw |-> FALSE, count |-> 0]

\* createInitialModel()
InitialModel ==
    /\ entities = createInitialModel
    /\ created = 0
    /\ fsLast = NoOperation

\* the explorer is mounted again
CreateInitialModel ==
    /\ entities' = createInitialModel
    /\ created' = 0
    /\ fsLast' = NoOperation

\* createFile or createDirectory(model, parentPath, name)
CreateEntity(type, parentPath, name) ==
    /\ fsLast.count < MaxOperations
    /\ created' = created + 1
    /\ IF pathExists(entities, Append(parentPath, name))
       THEN /\ fsLast' = [NoOperation EXCEPT !.count = fsLast.count + 1, !.op = "create", !.threw = TRUE]
            /\ UNCHANGED entities
       ELSE /\ entities' = createEntity(entities, NewIds[created + 1], type, parentPath, name)
            /\ fsLast' = [NoOperation EXCEPT !.count = fsLast.count + 1, !.op = "create", !.id = NewIds[created + 1],
                                             !.type = type,
                                             !.path = Append(parentPath, name)]

\* deleteEntity(model, id)
DeleteEntity(id) ==
    /\ fsLast.count < MaxOperations
    /\ IF hasKey(entities, id) /\ id = RootId
       THEN /\ fsLast' = [NoOperation EXCEPT !.count = fsLast.count + 1, !.op = "delete", !.id = id, !.threw = TRUE]
            /\ UNCHANGED entities
       ELSE /\ entities' = deleteEntity(entities, id)
            /\ fsLast' = IF hasKey(entities, id)
                          THEN [NoOperation EXCEPT !.count = fsLast.count + 1, !.op = "delete", !.id = id,
                                                  !.type = entityAt(entities, id).type,
                                                  !.path = entityAt(entities, id).path]
                          ELSE [NoOperation EXCEPT !.count = fsLast.count + 1, !.op = "delete", !.id = id]
    /\ UNCHANGED created

\* renameEntity(model, id, newName)
RenameEntity(id, newName) ==
    /\ fsLast.count < MaxOperations
    /\ IF ~hasKey(entities, id)
       THEN /\ fsLast' = [NoOperation EXCEPT !.count = fsLast.count + 1, !.op = "rename", !.id = id]
            /\ UNCHANGED entities
       ELSE LET newPath == Append(SubSeq(entityAt(entities, id).path, 1, Len(entityAt(entities, id).path) - 1),
                                  newName)
            IN  IF id = RootId
                   \/ \E k \in 1..Len(entities) :
                         entities[k].path = newPath /\ entities[k].id # id
                THEN /\ fsLast' = [NoOperation EXCEPT !.count = fsLast.count + 1, !.op = "rename", !.id = id,
                                                      !.threw = TRUE]
                     /\ UNCHANGED entities
                ELSE /\ entities' = relocate(entities, id, newName, newPath)
                     /\ fsLast' = [NoOperation EXCEPT !.count = fsLast.count + 1, !.op = "rename", !.id = id,
                                                      !.type = entityAt(entities, id).type,
                                                      !.path = newPath]
    /\ UNCHANGED created

\* moveEntity(model, id, destinationPath)
MoveEntity(id, destinationPath) ==
    /\ fsLast.count < MaxOperations
    /\ IF ~hasKey(entities, id)
       THEN /\ fsLast' = [NoOperation EXCEPT !.count = fsLast.count + 1, !.op = "move", !.id = id]
            /\ UNCHANGED entities
       ELSE LET newPath == Append(destinationPath, entityAt(entities, id).name)
            IN  IF id = RootId \/ pathExists(entities, newPath)
                THEN /\ fsLast' = [NoOperation EXCEPT !.count = fsLast.count + 1, !.op = "move", !.id = id,
                                                      !.threw = TRUE]
                     /\ UNCHANGED entities
                ELSE /\ entities' = relocate(entities, id, entityAt(entities, id).name, newPath)
                     /\ fsLast' = [NoOperation EXCEPT !.count = fsLast.count + 1, !.op = "move", !.id = id,
                                                      !.type = entityAt(entities, id).type,
                                                      !.path = newPath]
    /\ UNCHANGED created

(***************************************************************************)
(* storage.ts: MemStorage                                                  *)
(***************************************************************************)
MaxCreates == 3

\* users is the set of the pairs <<id, user>>; chats and goals follow users
StorageData(users, currentId) == [users |-> users, currentId |-> currentId]

\* the constructor's literal and loadStorageData's default, currentId 1
DefaultData == StorageData({}, 1)

UserTokens == <<"u1", "u2", "u3", "u4">>

\* this.data.users[id] = user
putUser(users, id, user) == {p \in users : p[1] # id} \cup {<<id, user>>}

\* this.data.users[id]
userAt(users, id) ==
    IF \E p \in users : p[1] = id
    THEN (CHOOSE p \in users : p[1] = id)[2]
    ELSE "undefined"

NoWrite == [active |-> FALSE, id |-> 0, user |-> None, content |-> DefaultData]
NoRead == [op |-> None, id |-> 0, result |-> None, users |-> {}, expected |-> {}]

\* new MemStorage(), lines 120-128: the literal is assigned and loadData is
\* started without being awaited
StorageConstructed ==
    /\ sdata = DefaultData
    /\ sfile = DefaultData
    /\ lpc = "reading"
    /\ loaded = DefaultData
    /\ pending = NoWrite
    /\ resolved = {}
    /\ issued = 0
    /\ lastRead = NoRead

\* the server process starts again over the storage file as it is
Restart ==
    /\ sdata' = DefaultData
    /\ lpc' = "reading"
    /\ loaded' = DefaultData
    /\ pending' = NoWrite
    /\ resolved' = {}
    /\ lastRead' = NoRead
    /\ UNCHANGED <<sfile, issued>>

\* loadStorageData, lines 76-90: readFile and JSON.parse give the file's
\* content, the default data when there is no file
LoadRead ==
    /\ lpc = "reading"
    /\ loaded' = sfile
    /\ lpc' = "parsed"
    /\ UNCHANGED <<sdata, sfile, pending, resolved, issued, lastRead>>

\* loadData, line 131: this.data = await loadStorageData()
LoadAssign ==
    /\ lpc = "parsed"
    /\ sdata' = loaded
    /\ lpc' = "done"
    /\ UNCHANGED <<sfile, loaded, pending, resolved, issued, lastRead>>

\* createUser up to its await, lines 146-155: the user is put into
\* this.data and saveData starts writing the serialized data
CreateUser ==
    /\ ~pending.active
    /\ issued < MaxCreates
    /\ LET id == sdata.currentId
           user == UserTokens[issued + 1]
           data == StorageData(putUser(sdata.users, id, user), id + 1)
       IN  /\ sdata' = data
           /\ pending' = [active |-> TRUE, id |-> id, user |-> user, content |-> data]
    /\ issued' = issued + 1
    /\ UNCHANGED <<sfile, lpc, loaded, resolved, lastRead>>

\* lines 93-99 and 155-156: writeFile completes and createUser resolves
\* with the user
SaveCompletes ==
    /\ pending.active
    /\ sfile' = pending.content
    /\ resolved' = resolved \cup {<<pending.id, pending.user>>}
    /\ pending' = NoWrite
    /\ UNCHANGED <<sdata, lpc, loaded, issued, lastRead>>

\* getUser(id), lines 138-140
GetUser(id) ==
    /\ lastRead' = [NoRead EXCEPT !.op = "getUser", !.id = id,
                                  !.result = userAt(sdata.users, id),
                                  !.expected = resolved]
    /\ UNCHANGED <<sdata, sfile, lpc, loaded, pending, resolved, issued>>

\* getAllUsers(), lines 142-144
GetAllUsers ==
    /\ lastRead' = [NoRead EXCEPT !.op = "getAllUsers", !.users = sdata.users,
                                  !.expected = resolved]
    /\ UNCHANGED <<sdata, sfile, lpc, loaded, pending, resolved, issued>>

(***************************************************************************)
(* server prediction.ts: optimizePortfolio                                 *)
(***************************************************************************)
Categories(s, b, c, a) == [stocks |-> s, bonds |-> b, cash |-> c, alternatives |-> a]

serverBaseAllocations ==
    [conservative |-> Categories(30, 45, 15, 10),
     moderate |-> Categories(50, 30, 10, 10),
     aggressive |-> Categories(70, 15, 5, 10)]

\* serverMarketAdjustments with a sign slip in the bullish cash delta
serverMarketAdjustmentsSignSlip ==
    [bearish |-> Categories(-10, 5, 5, 0),
     neutral |-> Categories(0, 0, 0, 0),
     bullish |-> Categories(10, -5, 5, 0)]

serverMarketAdjustments ==
    [bearish |-> Categories(-10, 5, 5, 0),
     neutral |-> Categories(0, 0, 0, 0),
     bullish |-> Categories(10, -5, -5, 0)]

ServerMin == 0
ServerMax == 100

\* lines 251-256
serverClamp(b, a) ==
    Categories(Max(ServerMin, Min(ServerMax, b.stocks + a.stocks)),
               Max(ServerMin, Min(ServerMax, b.bonds + a.bonds)),
               Max(ServerMin, Min(ServerMax, b.cash + a.cash)),
               Max(ServerMin, Min(ServerMax, b.alternatives + a.alternatives)))

serverTotal(x) == x.stocks + x.bonds + x.cash + x.alternatives

\* Math.round((percentage / total) * 100) in IEEE doubles.  The quotient is
\* rounded before the multiplication; on these (percentage, total) pairs the
\* exact value k + 1/2 is computed just below the half and rounds down.
DoubleBelowHalf ==
    {<<23, 40>>, <<46, 80>>, <<69, 120>>, <<92, 160>>, <<29, 200>>, <<57, 200>>, <<58, 400>>}

serverPercentage(p, total) ==
    IF <<p, total>> \in DoubleBelowHalf
    THEN MathRound(p * 100, total) - 1
    ELSE MathRound(p * 100, total)

\* lines 259-265
serverNormalize(x) ==
    LET total == serverTotal(x)
    IN  Categories(serverPercentage(x.stocks, total), serverPercentage(x.bonds, total),
                   serverPercentage(x.cash, total), serverPercentage(x.alternatives, total))

\* lines 269-293 (x100)
expectedReturns == Categories(10, 5, 2, 8)
riskLevels == Categories(16, 6, 1, 12)

weighted(table, x) ==
    table.stocks * x.stocks + table.bonds * x.bonds
    + table.cash * x.cash + table.alternatives * x.alternatives

(***************************************************************************)
(* The optimizer invocations.                                              *)
(***************************************************************************)
NoBuckets == Buckets(0, 0, 0, 0)

AllocIdle ==
    /\ apc = "idle"
    /\ entry = None
    /\ riskProfile = None
    /\ marketCondition = None
    /\ base = NoBuckets
    /\ adjustment = NoBuckets
    /\ adjusted = NoBuckets
    /\ rounded = NoBuckets
    /\ allocation = NoBuckets
    /\ expectedReturn = 0
    /\ riskLevel = 0
    /\ outcome = None

\* the entry points that run calculateOptimalAllocation
ClientEntries == {"calculateOptimalAllocation", "chart"}

\* a caller invokes calculateOptimalAllocation(riskProfile, marketCondition)
CallCalculate(r, c) ==
    /\ apc = "idle"
    /\ apc' = "lookup"
    /\ entry' = "calculateOptimalAllocation"
    /\ riskProfile' = r
    /\ marketCondition' = c
    /\ UNCHANGED <<base, adjustment, adjusted, rounded, allocation,
                   expectedReturn, riskLevel, outcome>>

\* utils.ts lines 43-44 with keys the tables have
ClientLookup ==
    /\ apc = "lookup"
    /\ entry = "calculateOptimalAllocation"
    /\ riskProfile \in RiskProfiles
    /\ marketCondition \in Labels
    /\ base' = clientBaseAllocations[riskProfile]
    /\ adjustment' = clientMarketAdjustments[marketCondition]
    /\ apc' = "clamp"
    /\ UNCHANGED <<entry, riskProfile, marketCondition, adjusted, rounded, allocation,
                   expectedReturn, riskLevel, outcome>>

\* utils.ts lines 43-48 with a key the tables lack: base or adjustment is
\* undefined and reading its equity property throws a TypeError
ClientLookupThrows ==
    /\ apc = "lookup"
    /\ entry = "calculateOptimalAllocation"
    /\ riskProfile \notin RiskProfiles \/ marketCondition \notin Labels
    /\ outcome' = "throws"
    /\ apc' = "done"
    /\ UNCHANGED <<entry, riskProfile, marketCondition, base, adjustment, adjusted,
                   rounded, allocation, expectedReturn, riskLevel>>

\* utils.ts lines 47-52
ClientClamp ==
    /\ apc = "clamp"
    /\ entry \in ClientEntries
    /\ adjusted' = clientClamp(base, adjustment)
    /\ apc' = "normalize"
    /\ UNCHANGED <<entry, riskProfile, marketCondition, base, adjustment,
                   rounded, allocation, expectedReturn, riskLevel, outcome>>

\* utils.ts lines 55-63
ClientNormalize ==
    /\ apc = "normalize"
    /\ entry \in ClientEntries
    /\ rounded' = clientRound(adjusted)
    /\ apc' = "final"
    /\ UNCHANGED <<entry, riskProfile, marketCondition, base, adjustment,
                   adjusted, allocation, expectedReturn, riskLevel, outcome>>

\* utils.ts lines 66-71
ClientFinal ==
    /\ apc = "final"
    /\ entry \in ClientEntries
    /\ allocation' = clientFinal(rounded)
    /\ outcome' = "ok"
    /\ apc' = "done"
    /\ UNCHANGED <<entry, riskProfile, marketCondition, base, adjustment,
                   adjusted, rounded, expectedReturn, riskLevel>>

\* DynamicPortfolioChart: userData.riskProfile || 'moderate' and the default
\* 'neutral' of the marketCondition prop
chartRiskProfile(r) == IF r = "missing" THEN "moderate" ELSE r
chartMarketCondition(c) == IF c = "missing" THEN "neutral" ELSE c

\* the effect of DynamicPortfolioChart runs with userData.riskProfile = r and
\* the marketCondition prop c
CallChart(r, c) ==
    /\ apc = "idle"
    /\ apc' = "lookup"
    /\ entry' = "chart"
    /\ riskProfile' = r
    /\ marketCondition' = c
    /\ UNCHANGED <<base, adjustment, adjusted, rounded, allocation,
                   expectedReturn, riskLevel, outcome>>

\* the chart calls calculateOptimalAllocation with keys the tables have
ChartLookup ==
    /\ apc = "lookup"
    /\ entry = "chart"
    /\ chartRiskProfile(riskProfile) \in RiskProfiles
    /\ chartMarketCondition(marketCondition) \in Labels
    /\ base' = clientBaseAllocations[chartRiskProfile(riskProfile)]
    /\ adjustment' = clientMarketAdjustments[chartMarketCondition(marketCondition)]
    /\ apc' = "clamp"
    /\ UNCHANGED <<entry, riskProfile, marketCondition, adjusted, rounded, allocation,
                   expectedReturn, riskLevel, outcome>>

\* the chart calls calculateOptimalAllocation with a key the tables lack
ChartLookupThrows ==
    /\ apc = "lookup"
    /\ entry = "chart"
    /\ \/ chartRiskProfile(riskProfile) \notin RiskProfiles
       \/ chartMarketCondition(marketCondition) \notin Labels
    /\ outcome' = "throws"
    /\ apc' = "done"
    /\ UNCHANGED <<entry, riskProfile, marketCondition, base, adjustment, adjusted,
                   rounded, allocation, expectedReturn, riskLevel>>

\* POST /api/portfolio/optimize with body {riskProfile, marketCondition}
PostOptimize(r, c) ==
    /\ apc = "idle"
    /\ apc' = "validate"
    /\ entry' = "route"
    /\ riskProfile' = r
    /\ marketCondition' = c
    /\ UNCHANGED <<base, adjustment, adjusted, rounded, allocation,
                   expectedReturn, riskLevel, outcome>>

\* the route's checks: a missing or invalid value is answered with HTTP 400
RouteReject ==
    /\ apc = "validate"
    /\ \/ riskProfile = "missing"
       \/ marketCondition = "missing"
       \/ riskProfile \notin RiskProfiles
       \/ marketCondition \notin Labels
    /\ outcome' = "http400"
    /\ apc' = "done"
    /\ UNCHANGED <<entry, riskProfile, marketCondition, base, adjustment, adjusted,
                   rounded, allocation, expectedReturn, riskLevel>>

\* the route calls optimizePortfolio; prediction.ts lines 248-256
ServerClamp ==
    /\ apc = "validate"
    /\ riskProfile \in RiskProfiles
    /\ marketCondition \in Labels
    /\ base' = serverBaseAllocations[riskProfile]
    /\ adjustment' = serverMarketAdjustments[marketCondition]
    /\ adjusted' = serverClamp(serverBaseAllocations[riskProfile],
                               serverMarketAdjustments[marketCondition])
    /\ apc' = "normalize"
    /\ UNCHANGED <<entry, riskProfile, marketCondition, rounded, allocation,
                   expectedReturn, riskLevel, outcome>>

\* prediction.ts lines 259-299 and the route's res.json
ServerNormalize ==
    /\ apc = "normalize"
    /\ entry = "route"
    /\ allocation' = serverNormalize(adjusted)
    /\ expectedReturn' = weighted(expectedReturns, serverNormalize(adjusted))
    /\ riskLevel' = weighted(riskLevels, serverNormalize(adjusted))
    /\ outcome' = "ok"
    /\ apc' = "done"
    /\ UNCHANGED <<entry, riskProfile, marketCondition, base, adjustment,
                   adjusted, rounded>>

\* the invocation is over
AllocReturn ==
    /\ apc = "done"
    /\ apc' = "idle"
    /\ entry' = None
    /\ riskProfile' = None
    /\ marketCondition' = None
    /\ base' = NoBuckets
    /\ adjustment' = NoBuckets
    /\ adjusted' = NoBuckets
    /\ rounded' = NoBuckets
    /\ allocation' = NoBuckets
    /\ expectedReturn' = 0
    /\ riskLevel' = 0
    /\ outcome' = None

\* a synthetic test of calculateOptimalAllocation: the adjustment row is
\* injected instead of being read from marketAdjustments
Deltas == {k * 15 : k \in -MaxK..MaxK}

CallInjected(r, d) ==
    /\ apc = "idle"
    /\ apc' = "clamp"
    /\ entry' = "calculateOptimalAllocation"
    /\ riskProfile' = r
    /\ marketCondition' = "injected"
    /\ base' = clientBaseAllocations[r]
    /\ adjustment' = d
    /\ UNCHANGED <<adjusted, rounded, allocation, expectedReturn, riskLevel, outcome>>

\* the normalization steps on their own: the clamped buckets are drawn from
\* both ends of their clamp ranges
EdgeValues(lo, hi) == (lo..(lo + NormSpan)) \cup ((hi - NormSpan)..hi)

ClampedBuckets ==
    [equity : EdgeValues(EquityMin, EquityMax), debt : EdgeValues(DebtMin, DebtMax),
     gold : EdgeValues(GoldMin, GoldMax), cash : EdgeValues(CashMin, CashMax)]

ClampedCategories ==
    [stocks : EdgeValues(ServerMin, ServerMax), bonds : EdgeValues(ServerMin, ServerMax),
     cash : EdgeValues(ServerMin, ServerMax), alternatives : EdgeValues(ServerMin, ServerMax)]

\* utils.ts line 55 is reached with adjusted = x
EnterClientNormalize(x) ==
    /\ apc = "idle"
    /\ apc' = "normalize"
    /\ entry' = "calculateOptimalAllocation"
    /\ riskProfile' = "injected"
    /\ marketCondition' = "injected"
    /\ adjusted' = x
    /\ UNCHANGED <<base, adjustment, rounded, allocation, expectedReturn, riskLevel, outcome>>

\* prediction.ts line 259 is reached with optimizedAllocation = x, total > 0
EnterServerNormalize(x) ==
    /\ apc = "idle"
    /\ serverTotal(x) > 0
    /\ apc' = "normalize"
    /\ entry' = "route"
    /\ riskProfile' = "injected"
    /\ marketCondition' = "injected"
    /\ adjusted' = x
    /\ UNCHANGED <<base, adjustment, rounded, allocation, expectedReturn, riskLevel, outcome>>

(***************************************************************************)
(* the advisor's getInvestmentAdvice and the providers it calls            *)
(***************************************************************************)
NoRequest == [riskProfile |-> None, marketCondition |-> None, isPortfolioQuery |-> FALSE]
NoAdvice == [settled |-> None, type |-> None, topic |-> None, source |-> None,
             keyPoints |-> <<>>]

AdviceIdle ==
    /\ vpc = "idle"
    /\ request = NoRequest
    /\ calls = <<>>
    /\ advice = NoAdvice

Requests ==
    [riskProfile : RiskProfiles, marketCondition : Labels, isPortfolioQuery : BOOLEAN]

\* an InvestmentResponse that passed responseSchema: a portfolio answer or a
\* topic answer; source records the provider that produced it
providerResponse(source, type) ==
    [settled |-> "resolved", type |-> type,
     topic |-> IF type = "topic" THEN "general" ELSE None,
     source |-> source, keyPoints |-> <<>>]

ResponseTypes == {"portfolio", "topic"}

\* anthropic.ts lines 139-150: the answer could not be parsed or validated
anthropicParseFallback ==
    [settled |-> "resolved", type |-> "topic", topic |-> "error",
     source |-> "anthropic", keyPoints |-> <<>>]

\* anthropic.ts lines 152-166: messages.create (or anything before it) threw
anthropicCatchFallback(r) ==
    [settled |-> "resolved", type |-> "topic", topic |-> "error",
     source |-> "anthropic", keyPoints |-> <<r.riskProfile, r.marketCondition>>]

\* the advisor calling the Anthropic provider before the Gemini provider
AdvisorCallAnthropicFirst(r) ==
    /\ vpc = "idle"
    /\ request' = r
    /\ calls' = <<"anthropic:call">>
    /\ vpc' = "anthropic"
    /\ UNCHANGED advice

\* advisor lines 176-184: getInvestmentAdvice is called and awaits
\* getGeminiAdvice
AdvisorCall(r) ==
    /\ vpc = "idle"
    /\ request' = r
    /\ calls' = <<"gemini:call">>
    /\ vpc' = "gemini"
    /\ UNCHANGED advice

\* advisor lines 184-187: the Gemini call resolved, its response is returned
GeminiResolves(type) ==
    /\ vpc = "gemini"
    /\ calls' = Append(calls, "gemini:ok")
    /\ advice' = providerResponse("gemini", type)
    /\ vpc' = "done"
    /\ UNCHANGED request

\* advisor lines 188-192: the Gemini call rejected; getAnthropicAdvice is
\* awaited
GeminiRejects ==
    /\ vpc = "gemini"
    /\ calls' = calls \o <<"gemini:fail", "anthropic:call">>
    /\ vpc' = "anthropic"
    /\ UNCHANGED <<request, advice>>

\* anthropic.ts lines 115-137 and advisor lines 192-195: Claude answered
\* with JSON that passes the schema
AnthropicResolves(type) ==
    /\ vpc = "anthropic"
    /\ calls' = Append(calls, "anthropic:ok")
    /\ advice' = providerResponse("anthropic", type)
    /\ vpc' = "done"
    /\ UNCHANGED request

\* anthropic.ts lines 128-151: the answer does not parse; the provider
\* resolves with its canned response, which the advisor returns
AnthropicParseFails ==
    /\ vpc = "anthropic"
    /\ calls' = Append(calls, "anthropic:fail")
    /\ advice' = anthropicParseFallback
    /\ vpc' = "done"
    /\ UNCHANGED request

\* anthropic.ts lines 152-166: the API call threw; the provider resolves
\* with its canned response, which the advisor returns
AnthropicCreateThrows ==
    /\ vpc = "anthropic"
    /\ calls' = Append(calls, "anthropic:fail")
    /\ advice' = anthropicCatchFallback(request)
    /\ vpc' = "done"
    /\ UNCHANGED request

\* the caller has the response
AdvisorReturn ==
    /\ vpc = "done"
    /\ vpc' = "idle"
    /\ request' = NoRequest
    /\ calls' = <<>>
    /\ advice' = NoAdvice

(***************************************************************************)
(* Specifications.                                                         *)
(***************************************************************************)
\* the classifier as getMarketCondition invokes it
Init == ClassifierIdle /\ AllocIdle /\ MarketIdle /\ AdviceIdle /\ ProtocolCreated /\ InitialModel /\ StorageConstructed

Next ==
    \/ \E v \in VixValues, c \in ChangeValues : Call(v, c) /\ UNCHANGED <<allocVars, marketVars, adviceVars, componentVars>>
    \/ PredictRegression /\ UNCHANGED <<allocVars, marketVars, adviceVars, componentVars>>
    \/ PredictSimple /\ UNCHANGED <<allocVars, marketVars, adviceVars, componentVars>>
    \/ AnalyzeNewsSentiment /\ UNCHANGED <<allocVars, marketVars, adviceVars, componentVars>>
    \/ Classify /\ UNCHANGED <<allocVars, marketVars, adviceVars, componentVars>>
    \/ Return /\ UNCHANGED <<allocVars, marketVars, adviceVars, componentVars>>

Spec == Init /\ [][Next]_vars

\* the two optimizers as their callers invoke them
NextAlloc ==
    \/ \E r \in RiskInputs, c \in ConditionInputs : CallCalculate(r, c) /\ UNCHANGED <<classifierVars, marketVars, adviceVars, componentVars>>
    \/ ClientLookup /\ UNCHANGED <<classifierVars, marketVars, adviceVars, componentVars>>
    \/ ClientLookupThrows /\ UNCHANGED <<classifierVars, marketVars, adviceVars, componentVars>>
    \/ ClientClamp /\ UNCHANGED <<classifierVars, marketVars, adviceVars, componentVars>>
    \/ ClientNormalize /\ UNCHANGED <<classifierVars, marketVars, adviceVars, componentVars>>
    \/ ClientFinal /\ UNCHANGED <<classifierVars, marketVars, adviceVars, componentVars>>
    \/ \E r \in RiskInputs, c \in ConditionInputs : PostOptimize(r, c) /\ UNCHANGED <<classifierVars, marketVars, adviceVars, componentVars>>
    \/ RouteReject /\ UNCHANGED <<classifierVars, marketVars, adviceVars, componentVars>>
    \/ \E r \in RiskInputs, c \in ConditionInputs : CallChart(r, c) /\ UNCHANGED <<classifierVars, marketVars, adviceVars, componentVars>>
    \/ ChartLookup /\ UNCHANGED <<classifierVars, marketVars, adviceVars, componentVars>>
    \/ ChartLookupThrows /\ UNCHANGED <<classifierVars, marketVars, adviceVars, componentVars>>
    \/ ServerClamp /\ UNCHANGED <<classifierVars, marketVars, adviceVars, componentVars>>
    \/ ServerNormalize /\ UNCHANGED <<classifierVars, marketVars, adviceVars, componentVars>>
    \/ AllocReturn /\ UNCHANGED <<classifierVars, marketVars, adviceVars, componentVars>>

SpecAlloc == Init /\ [][NextAlloc]_vars

\* calculateOptimalAllocation under injected adjustment rows
NextInject ==
    \/ \E r \in RiskProfiles, d \in [equity : Deltas, debt : Deltas, gold : Deltas, cash : Deltas] :
          CallInjected(r, d) /\ UNCHANGED <<classifierVars, marketVars, adviceVars, componentVars>>
    \/ ClientClamp /\ UNCHANGED <<classifierVars, marketVars, adviceVars, componentVars>>
    \/ ClientNormalize /\ UNCHANGED <<classifierVars, marketVars, adviceVars, componentVars>>
    \/ ClientFinal /\ UNCHANGED <<classifierVars, marketVars, adviceVars, componentVars>>
    \/ AllocReturn /\ UNCHANGED <<classifierVars, marketVars, adviceVars, componentVars>>

SpecInject == Init /\ [][NextInject]_vars

\* the normalization of both optimizers over clamped values
NextNormalize ==
    \/ \E x \in ClampedBuckets : EnterClientNormalize(x) /\ UNCHANGED <<classifierVars, marketVars, adviceVars, componentVars>>
    \/ ClientNormalize /\ UNCHANGED <<classifierVars, marketVars, adviceVars, componentVars>>
    \/ ClientFinal /\ UNCHANGED <<classifierVars, marketVars, adviceVars, componentVars>>
    \/ \E x \in ClampedCategories : EnterServerNormalize(x) /\ UNCHANGED <<classifierVars, marketVars, adviceVars, componentVars>>
    \/ ServerNormalize /\ UNCHANGED <<classifierVars, marketVars, adviceVars, componentVars>>
    \/ AllocReturn /\ UNCHANGED <<classifierVars, marketVars, adviceVars, componentVars>>

SpecNormalize == Init /\ [][NextNormalize]_vars

\* getMarketCondition with its sources failing or not
NextMarket ==
    \/ GetMarketCondition /\ UNCHANGED <<classifierVars, allocVars, adviceVars, componentVars>>
    \/ QuoteThrows /\ UNCHANGED <<classifierVars, allocVars, adviceVars, componentVars>>
    \/ \E v \in MarketVixValues, c \in MarketChangeValues, n \in 0..MaxIndices :
          QuoteOk(v, c, n) /\ UNCHANGED <<allocVars, adviceVars, componentVars>>
    \/ \E v \in MarketVixValues, c \in MarketChangeValues, n \in 0..MaxIndices :
          QuoteOkRejected(v, c, n) /\ UNCHANGED <<allocVars, adviceVars, componentVars>>
    \/ (gpc = "condition" /\ CatchFallback) /\ UNCHANGED <<allocVars, marketVars, adviceVars, componentVars>>
    \/ (gpc = "condition" /\ PredictRegression) /\ UNCHANGED <<allocVars, marketVars, adviceVars, componentVars>>
    \/ (gpc = "condition" /\ PredictSimple) /\ UNCHANGED <<allocVars, marketVars, adviceVars, componentVars>>
    \/ (gpc = "condition" /\ AnalyzeNewsSentiment) /\ UNCHANGED <<allocVars, marketVars, adviceVars, componentVars>>
    \/ (gpc = "condition" /\ Classify) /\ UNCHANGED <<allocVars, marketVars, adviceVars, componentVars>>
    \/ ConditionReturned /\ UNCHANGED <<allocVars, adviceVars, componentVars>>
    \/ DetermineMarketTrend /\ UNCHANGED <<allocVars, adviceVars, componentVars>>
    \/ MarketReturn /\ UNCHANGED <<allocVars, adviceVars, componentVars>>

SpecMarket == Init /\ [][NextMarket]_vars

\* the advisor with each provider failing or not
NextAdvice ==
    \/ \E r \in Requests : AdvisorCall(r) /\ UNCHANGED <<classifierVars, allocVars, marketVars, componentVars>>
    \/ \E type \in ResponseTypes : GeminiResolves(type) /\ UNCHANGED <<classifierVars, allocVars, marketVars, componentVars>>
    \/ GeminiRejects /\ UNCHANGED <<classifierVars, allocVars, marketVars, componentVars>>
    \/ \E type \in ResponseTypes : AnthropicResolves(type) /\ UNCHANGED <<classifierVars, allocVars, marketVars, componentVars>>
    \/ AnthropicParseFails /\ UNCHANGED <<classifierVars, allocVars, marketVars, componentVars>>
    \/ AnthropicCreateThrows /\ UNCHANGED <<classifierVars, allocVars, marketVars, componentVars>>
    \/ AdvisorReturn /\ UNCHANGED <<classifierVars, allocVars, marketVars, componentVars>>

SpecAdvice == Init /\ [][NextAdvice]_vars

\* one action of every type, for the notification of the listeners
ProtocolActions ==
    {Optimize("bullish"), Rebalance(Buckets(25, 25, 25, 25)),
     AddAsset(Asset("a5", "equity", 20)), RemoveAsset("a1"),
     UpdateAsset("a2", 40), ChangeRisk("aggressive"), UnknownAction}

\* the actions with their payloads, for the model operations
ModelActions ==
    {Optimize(c) : c \in Labels} \cup {ChangeRisk(r) : r \in RiskProfiles}
    \cup {Rebalance(Buckets(25, 25, 25, 25)), AddAsset(Asset("a5", "equity", 20)),
          RemoveAsset("a1"), RemoveAsset("a5"), UpdateAsset("a2", 40), UnknownAction}

ConsistencyActions ==
    {Optimize(c) : c \in Labels} \cup {ChangeRisk(r) : r \in RiskProfiles}

\* a protocol with listeners that only read the state they are given
NextProtocol ==
    \/ \E r \in RiskProfiles : CreateProtocol(r) /\ UNCHANGED <<classifierVars, allocVars, marketVars, adviceVars, entityVars, storageVars>>
    \/ \E l \in Listeners : Subscribe(l) /\ UNCHANGED <<classifierVars, allocVars, marketVars, adviceVars, entityVars, storageVars>>
    \/ \E h \in 1..MaxSubscribes : Unsubscribe(h) /\ UNCHANGED <<classifierVars, allocVars, marketVars, adviceVars, entityVars, storageVars>>
    \/ \E action \in ProtocolActions : Dispatch(action, {}) /\ UNCHANGED <<classifierVars, allocVars, marketVars, adviceVars, entityVars, storageVars>>

SpecProtocol == Init /\ [][NextProtocol]_vars

\* the model operations behind dispatch
NextModel ==
    \/ \E r \in RiskProfiles : CreateProtocol(r) /\ UNCHANGED <<classifierVars, allocVars, marketVars, adviceVars, entityVars, storageVars>>
    \/ \E action \in ModelActions : Dispatch(action, {}) /\ UNCHANGED <<classifierVars, allocVars, marketVars, adviceVars, entityVars, storageVars>>

SpecModel == Init /\ [][NextModel]_vars

\* sequences of OPTIMIZE_PORTFOLIO and CHANGE_RISK_PROFILE
NextConsistency ==
    \/ \E r \in RiskProfiles : CreateProtocol(r) /\ UNCHANGED <<classifierVars, allocVars, marketVars, adviceVars, entityVars, storageVars>>
    \/ \E l \in Listeners : Subscribe(l) /\ UNCHANGED <<classifierVars, allocVars, marketVars, adviceVars, entityVars, storageVars>>
    \/ \E action \in ConsistencyActions : Dispatch(action, {}) /\ UNCHANGED <<classifierVars, allocVars, marketVars, adviceVars, entityVars, storageVars>>

SpecConsistency == Init /\ [][NextConsistency]_vars

\* a protocol with listeners that unsubscribe while they are notified
NextReentrant ==
    \/ \E r \in RiskProfiles : CreateProtocol(r) /\ UNCHANGED <<classifierVars, allocVars, marketVars, adviceVars, entityVars, storageVars>>
    \/ \E l \in Listeners : Subscribe(l) /\ UNCHANGED <<classifierVars, allocVars, marketVars, adviceVars, entityVars, storageVars>>
    \/ \E h \in 1..MaxSubscribes : Unsubscribe(h) /\ UNCHANGED <<classifierVars, allocVars, marketVars, adviceVars, entityVars, storageVars>>
    \/ \E c \in Labels, unsubscribing \in SUBSET Listeners :
          Dispatch(Optimize(c), unsubscribing) /\ UNCHANGED <<classifierVars, allocVars, marketVars, adviceVars, entityVars, storageVars>>

SpecReentrant == Init /\ [][NextReentrant]_vars

EntityIds == {RootId, "docs", "k2", "f2", "n1"}
EntityNames == {"Notes", "Images"}
DirectoryPaths == {<<"Documents">>, <<"Images">>}

\* the model operations of the file explorer
NextEntities ==
    \/ CreateInitialModel /\ UNCHANGED <<classifierVars, allocVars, marketVars, adviceVars, protocolVars, storageVars>>
    \/ \E type \in {"file", "directory"}, parentPath \in DirectoryPaths, name \in EntityNames :
          CreateEntity(type, parentPath, name) /\ UNCHANGED <<classifierVars, allocVars, marketVars, adviceVars, protocolVars, storageVars>>
    \/ \E id \in EntityIds : DeleteEntity(id) /\ UNCHANGED <<classifierVars, allocVars, marketVars, adviceVars, protocolVars, storageVars>>
    \/ \E id \in EntityIds, newName \in EntityNames :
          RenameEntity(id, newName) /\ UNCHANGED <<classifierVars, allocVars, marketVars, adviceVars, protocolVars, storageVars>>
    \/ \E id \in EntityIds, destinationPath \in DirectoryPaths :
          MoveEntity(id, destinationPath) /\ UNCHANGED <<classifierVars, allocVars, marketVars, adviceVars, protocolVars, storageVars>>

SpecEntities == Init /\ [][NextEntities]_vars

\* MemStorage with the constructor's load in flight
NextStorage ==
    \/ Restart /\ UNCHANGED <<classifierVars, allocVars, marketVars, adviceVars, protocolVars, entityVars>>
    \/ LoadRead /\ UNCHANGED <<classifierVars, allocVars, marketVars, adviceVars, protocolVars, entityVars>>
    \/ LoadAssign /\ UNCHANGED <<classifierVars, allocVars, marketVars, adviceVars, protocolVars, entityVars>>
    \/ CreateUser /\ UNCHANGED <<classifierVars, allocVars, marketVars, adviceVars, protocolVars, entityVars>>
    \/ SaveCompletes /\ UNCHANGED <<classifierVars, allocVars, marketVars, adviceVars, protocolVars, entityVars>>
    \/ \E id \in 1..MaxCreates : GetUser(id) /\ UNCHANGED <<classifierVars, allocVars, marketVars, adviceVars, protocolVars, entityVars>>
    \/ GetAllUsers /\ UNCHANGED <<classifierVars, allocVars, marketVars, adviceVars, protocolVars, entityVars>>

SpecStorage == Init /\ [][NextStorage]_vars

\* the catch block of determineMarketCondition
NextFallback ==
    \/ \E v \in VixValues, c \in FallbackChanges : Rejected(v, c) /\ UNCHANGED <<allocVars, marketVars, adviceVars, componentVars>>
    \/ CatchFallback /\ UNCHANGED <<allocVars, marketVars, adviceVars, componentVars>>
    \/ Return /\ UNCHANGED <<allocVars, marketVars, adviceVars, componentVars>>

SpecFallback == Init /\ [][NextFallback]_vars

(***************************************************************************)
(* The allocation optimizers.                                              *)
(***************************************************************************)
ClientReturned == apc = "done" /\ entry = "calculateOptimalAllocation"
RouteAnswered == apc = "done" /\ entry = "route"

\* C1: for each of the 9 (risk profile, market condition) combinations
\* calculateOptimalAllocation returns four non-negative integers that sum to
\* exactly 100.
C1_ClientAllocationSumsTo100 ==
    (ClientReturned /\ riskProfile \in RiskProfiles /\ marketCondition \in Labels) =>
        /\ outcome = "ok"
        /\ allocation.equity \in Nat
        /\ allocation.debt \in Nat
        /\ allocation.gold \in Nat
        /\ allocation.cash \in Nat
        /\ allocation.equity + allocation.debt + allocation.gold + allocation.cash = 100

C1_Witness ==
    /\ ClientReturned
    /\ riskProfile = "moderate"
    /\ marketCondition = "bearish"
    /\ allocation = Buckets(35, 38, 17, 10)

\* C2: for each of the 9 combinations the server-side optimizePortfolio
\* returns four percentages that are non-negative integers summing to 100.
C2_ServerAllocationSumsTo100 ==
    (RouteAnswered /\ riskProfile \in RiskProfiles /\ marketCondition \in Labels) =>
        /\ outcome = "ok"
        /\ allocation.stocks \in Nat
        /\ allocation.bonds \in Nat
        /\ allocation.cash \in Nat
        /\ allocation.alternatives \in Nat
        /\ allocation.stocks + allocation.bonds + allocation.cash
             + allocation.alternatives = 100

C2_Witness ==
    /\ RouteAnswered
    /\ riskProfile = "aggressive"
    /\ marketCondition = "bullish"
    /\ allocation = Categories(80, 10, 0, 10)

\* C3: (conservative, bearish) returns {15, 53, 20, 12} and (aggressive,
\* bullish) returns {80, 10, 7, 3}; the result is base + delta bucket by
\* bucket, and neither the clamping nor the renormalization changes a value.
SumOfBaseAndDelta ==
    Buckets(base.equity + adjustment.equity, base.debt + adjustment.debt,
            base.gold + adjustment.gold, base.cash + adjustment.cash)

C3_Scenarios ==
    /\ (ClientReturned /\ riskProfile = "conservative" /\ marketCondition = "bearish") =>
           /\ allocation = Buckets(15, 53, 20, 12)
           /\ base = Buckets(30, 45, 15, 10)
           /\ adjustment = Buckets(-15, 8, 5, 2)
           /\ SumOfBaseAndDelta = allocation
           /\ adjusted = SumOfBaseAndDelta
           /\ rounded = adjusted
    /\ (ClientReturned /\ riskProfile = "aggressive" /\ marketCondition = "bullish") =>
           /\ allocation = Buckets(80, 10, 7, 3)
           /\ base = Buckets(70, 15, 10, 5)
           /\ adjustment = Buckets(10, -5, -3, -2)
           /\ SumOfBaseAndDelta = allocation
           /\ adjusted = SumOfBaseAndDelta
           /\ rounded = adjusted

C3_Witness ==
    /\ ClientReturned
    /\ riskProfile = "conservative"
    /\ marketCondition = "bearish"
    /\ outcome = "ok"
    /\ allocation.debt = 53

\* C4: every bucket of base + delta is clamped on its own, before the
\* normalization, to its range: equity [10, 90], debt [10, 70], gold [0, 30],
\* cash [0, 30].  An aggressive base equity of 70 with an injected delta of
\* +30 is clamped to 90, and a bucket pushed below its floor becomes the floor.
Clamped(raw, lo, hi) == IF raw > hi THEN hi ELSE IF raw < lo THEN lo ELSE raw

C4_ClampedPerBucket ==
    (entry = "calculateOptimalAllocation" /\ apc = "normalize") =>
        /\ adjusted.equity = Clamped(base.equity + adjustment.equity, 10, 90)
        /\ adjusted.debt = Clamped(base.debt + adjustment.debt, 10, 70)
        /\ adjusted.gold = Clamped(base.gold + adjustment.gold, 0, 30)
        /\ adjusted.cash = Clamped(base.cash + adjustment.cash, 0, 30)
        /\ (riskProfile = "aggressive" /\ adjustment.equity = 30) => adjusted.equity = 90
        /\ adjusted.equity >= 10 /\ adjusted.debt >= 10
        /\ adjusted.gold >= 0 /\ adjusted.cash >= 0
        /\ rounded = NoBuckets

C4_Witness ==
    /\ entry = "calculateOptimalAllocation"
    /\ apc = "normalize"
    /\ riskProfile = "aggressive"
    /\ base.equity = 70
    /\ adjustment.equity = 30
    /\ adjusted.equity = 90
    /\ adjustment.gold = -30
    /\ adjusted.gold = 0

(***************************************************************************)
(* The classifier.                                                         *)
(***************************************************************************)
\* determineMarketCondition returned from the end of its try block
Classified == pc = "done" /\ historicalStatus # "rejects"
\* determineMarketCondition returned from its catch block
FellBack == pc = "done" /\ historicalStatus = "rejects"

\* C5: the four signals use strict thresholds: volatility > 25 bearish, < 15
\* bullish; trend up/down with confidence > 0.4 bullish/bearish; sentiment
\* score > 1.5 / < -1.5 with confidence > 0.4 bullish/bearish; change > 1
\* bullish, < -1 bearish; everything else, the boundary values included, is
\* neutral.
C5_StrictThresholds ==
    Classified =>
        /\ signals.vix = (IF vixValue > 25 THEN "bearish"
                          ELSE IF vixValue < 15 THEN "bullish" ELSE "neutral")
        /\ signals.prediction =
              (IF marketPrediction.trend = "up" /\ marketPrediction.confidence > 400
               THEN "bullish"
               ELSE IF marketPrediction.trend = "down" /\ marketPrediction.confidence > 400
               THEN "bearish" ELSE "neutral")
        /\ signals.sentiment =
              (IF sentimentAnalysis.score > 15 /\ sentimentAnalysis.confidence > 400
               THEN "bullish"
               ELSE IF sentimentAnalysis.score < -15 /\ sentimentAnalysis.confidence > 400
               THEN "bearish" ELSE "neutral")
        /\ signals.current = (IF mainIndexChange > 10 THEN "bullish"
                              ELSE IF mainIndexChange < -10 THEN "bearish" ELSE "neutral")
        /\ vixValue \in {15, 25} => signals.vix = "neutral"
        /\ marketPrediction.confidence = 400 => signals.prediction = "neutral"
        /\ sentimentAnalysis.confidence = 400 => signals.sentiment = "neutral"
        /\ sentimentAnalysis.score \in {-15, 15} => signals.sentiment = "neutral"
        /\ mainIndexChange \in {-10, 10} => signals.current = "neutral"

C5_Witness ==
    /\ Classified
    /\ vixValue = 25
    /\ marketPrediction = [trend |-> "up", confidence |-> 400]
    /\ sentimentAnalysis = [score |-> 20, confidence |-> 400]
    /\ mainIndexChange = 10
    /\ signals = [vix |-> "neutral", prediction |-> "neutral",
                  sentiment |-> "neutral", current |-> "neutral"]

\* C6: the weights 1.0 (volatility), 1.5 (trend), 1.0 (sentiment) and 1.2
\* (recent change) are summed per label; the result is bearish (bullish)
\* exactly when the bearish (bullish) sum is strictly greater than both other
\* sums, and neutral in every other case.
LabelSum(l) ==
    (IF signals.vix = l THEN 10 ELSE 0) + (IF signals.prediction = l THEN 15 ELSE 0)
    + (IF signals.sentiment = l THEN 10 ELSE 0) + (IF signals.current = l THEN 12 ELSE 0)

C6_StrictlyGreatestSumWins ==
    Classified =>
        /\ scores = [l \in Labels |-> LabelSum(l)]
        /\ condition = "bearish" <=>
               (LabelSum("bearish") > LabelSum("bullish")
                /\ LabelSum("bearish") > LabelSum("neutral"))
        /\ condition = "bullish" <=>
               (LabelSum("bullish") > LabelSum("bearish")
                /\ LabelSum("bullish") > LabelSum("neutral"))
        /\ condition \in Labels

C6_Witness ==
    /\ Classified
    /\ signals = [vix |-> "bearish", prediction |-> "bearish",
                  sentiment |-> "neutral", current |-> "bullish"]
    /\ scores = [l \in Labels |-> IF l = "bearish" THEN 25 ELSE IF l = "bullish" THEN 12 ELSE 10]
    /\ condition = "bearish"

\* C7: when the trend source and the sentiment source both fail, the result
\* matches the two-signal table: vix 30 with change -2 is bearish, vix 10 with
\* change 2 is bullish, vix 20 with change 0 is neutral.
BothSourcesFailed ==
    pc = "done" /\ historicalStatus = "throws" /\ sentimentStatus = "throws"

C7_FailedSourcesMatchTable ==
    BothSourcesFailed =>
        /\ (vixValue = 30 /\ mainIndexChange = -20) => condition = "bearish"
        /\ (vixValue = 10 /\ mainIndexChange = 20) => condition = "bullish"
        /\ (vixValue = 20 /\ mainIndexChange = 0) => condition = "neutral"

C9_ConcordantSignals ==
    Classified =>
        \A l \in Labels :
            (signals.vix = l /\ signals.prediction = l
             /\ signals.sentiment = l /\ signals.current = l) => condition = l

C9_Witness ==
    /\ Classified
    /\ signals = [vix |-> "bullish", prediction |-> "bullish",
                  sentiment |-> "bullish", current |-> "bullish"]
    /\ condition = "bullish"

\* C10: with the volatility and the sentiment signal both bearish (2.0) and
\* exactly one of the trend (1.5) and recent-change (1.2) signals bullish, the
\* other one neutral, the result is bearish.
C10_TwoBearishBeatOneBullish ==
    (/\ Classified
     /\ signals.vix = "bearish"
     /\ signals.sentiment = "bearish"
     /\ \/ signals.prediction = "bullish" /\ signals.current = "neutral"
        \/ signals.prediction = "neutral" /\ signals.current = "bullish")
    => condition = "bearish"

C10_Witness ==
    /\ Classified
    /\ signals = [vix |-> "bearish", prediction |-> "bullish",
                  sentiment |-> "bearish", current |-> "neutral"]
    /\ condition = "bearish"

\* C11 as stated: when the four signals are split 2-2, two bearish and two
\* bullish with none neutral, the vote is a tie and the result is neutral.
TwoTwoSplit ==
    /\ Classified
    /\ \A t \in {"vix", "prediction", "sentiment", "current"} : signals[t] # "neutral"
    /\ Cardinality({t \in {"vix", "prediction", "sentiment", "current"} :
                       signals[t] = "bearish"}) = 2

C11_TwoTwoSplitIsNeutral == TwoTwoSplit => condition = "neutral"

\* C11 amended: a 2-2 split between bearish and bullish is never a tie of
\* the weighted sums (2.5 against 2.2, or 2.7 against 2.0); the label whose two
\* signals weigh more is returned, never neutral.
C11_TwoTwoSplitHeavierPairWins ==
    TwoTwoSplit =>
        /\ LabelSum("bearish") # LabelSum("bullish")
        /\ LabelSum("neutral") = 0
        /\ condition = (IF LabelSum("bearish") > LabelSum("bullish")
                        THEN "bearish" ELSE "bullish")

C11_Witness ==
    /\ TwoTwoSplit
    /\ signals = [vix |-> "bearish", prediction |-> "bullish",
                  sentiment |-> "bearish", current |-> "bullish"]
    /\ condition = "bullish"

\* C12: with the trend source and the sentiment source unavailable the label
\* is the same for fixed volatility and recent change on every invocation,
\* whatever walk generateSimplePrediction draws: the trend and the sentiment
\* signal are neutral and the label is the constant neutral.
C12_FailedSourcesDeterministic ==
    BothSourcesFailed =>
        /\ signals.prediction = "neutral"
        /\ signals.sentiment = "neutral"
        /\ signals.vix = (IF vixValue > 25 THEN "bearish"
                          ELSE IF vixValue < 15 THEN "bullish" ELSE "neutral")
        /\ signals.current = (IF mainIndexChange > 10 THEN "bullish"
                              ELSE IF mainIndexChange < -10 THEN "bearish" ELSE "neutral")
        /\ condition = "neutral"

C12_Witness ==
    /\ BothSourcesFailed
    /\ marketPrediction = [trend |-> "up", confidence |-> 300]
    /\ vixValue = 10
    /\ mainIndexChange = 20
    /\ condition = "neutral"

\* C15: the result of calculateOptimalAllocation and of optimizePortfolio is
\* a function of (riskProfile, marketCondition) alone: on every invocation
\* the same arguments give the same allocation.
ClientResult ==
    [conservative |-> [bullish |-> Buckets(40, 40, 12, 8),
                       neutral |-> Buckets(30, 45, 15, 10),
                       bearish |-> Buckets(15, 53, 20, 12)],
     moderate |-> [bullish |-> Buckets(60, 25, 9, 6),
                   neutral |-> Buckets(50, 30, 12, 8),
                   bearish |-> Buckets(35, 38, 17, 10)],
     aggressive |-> [bullish |-> Buckets(80, 10, 7, 3),
                     neutral |-> Buckets(70, 15, 10, 5),
                     bearish |-> Buckets(55, 23, 15, 7)]]

ServerResult ==
    [conservative |-> [bullish |-> Categories(40, 40, 10, 10),
                       neutral |-> Categories(30, 45, 15, 10),
                       bearish |-> Categories(20, 50, 20, 10)],
     moderate |-> [bullish |-> Categories(60, 25, 5, 10),
                   neutral |-> Categories(50, 30, 10, 10),
                   bearish |-> Categories(40, 35, 15, 10)],
     aggressive |-> [bullish |-> Categories(80, 10, 0, 10),
                     neutral |-> Categories(70, 15, 5, 10),
                     bearish |-> Categories(60, 20, 10, 10)]]

ClientTablesRead ==
    /\ entry = "calculateOptimalAllocation"
    /\ apc \in {"clamp", "normalize", "final"} \/ (apc = "done" /\ outcome = "ok")
ServerTablesRead ==
    /\ entry = "route"
    /\ apc = "normalize" \/ (apc = "done" /\ outcome = "ok")

C17_TableRowsSum ==
    /\ \A r \in RiskProfiles :
          /\ clientTotal(clientBaseAllocations[r]) = 100
          /\ serverTotal(serverBaseAllocations[r]) = 100
    /\ \A c \in Labels :
          /\ clientTotal(clientMarketAdjustments[c]) = 0
          /\ serverTotal(serverMarketAdjustments[c]) = 0
    /\ ClientTablesRead =>
          /\ base.equity + base.debt + base.gold + base.cash = 100
          /\ adjustment.equity + adjustment.debt + adjustment.gold + adjustment.cash = 0
    /\ ServerTablesRead =>
          /\ base.stocks + base.bonds + base.cash + base.alternatives = 100
          /\ adjustment.stocks + adjustment.bonds + adjustment.cash
               + adjustment.alternatives = 0

C17_Witness ==
    /\ ServerTablesRead
    /\ apc = "normalize"
    /\ base = Categories(50, 30, 10, 10)
    /\ adjustment = Categories(-10, 5, 5, 0)

\* C14: a risk profile or market condition outside the three enum values, a
\* missing one included, makes the operation fail (HTTP 400 or a throw) at
\* every optimizer entry point and produces no allocation; it is never
\* replaced by a default.
C14_InvalidInputsRejected ==
    (apc = "done" /\ (riskProfile \notin RiskProfiles \/ marketCondition \notin Labels)) =>
        /\ outcome \in {"http400", "throws"}
        /\ allocation = NoBuckets

\* calculateOptimalAllocation returned and its rounded buckets did not sum to 100
ResidualCase ==
    /\ ClientReturned
    /\ outcome = "ok"
    /\ rounded.equity + rounded.debt + rounded.gold + rounded.cash # 100

ResidualGoesToEquity ==
    /\ allocation.equity = rounded.equity
          + (100 - (rounded.equity + rounded.debt + rounded.gold + rounded.cash))
    /\ allocation.debt = rounded.debt
    /\ allocation.gold = rounded.gold
    /\ allocation.cash = rounded.cash

C18_ClientNormalizationSumsTo100 ==
    (ClientReturned /\ outcome = "ok" /\ adjusted \in ClampedBuckets) =>
        /\ allocation.equity \in Nat
        /\ allocation.debt \in Nat
        /\ allocation.gold \in Nat
        /\ allocation.cash \in Nat
        /\ clientTotal(allocation) = 100

C18_Witness ==
    /\ ClientReturned
    /\ adjusted = Buckets(10, 10, 0, 1)
    /\ rounded = Buckets(48, 48, 0, 5)
    /\ allocation = Buckets(47, 48, 0, 5)

C13_MarketDataAlwaysResolved ==
    /\ marketData.settled # "rejected"
    /\ gpc = "done" =>
          /\ marketData.settled = "resolved"
          /\ marketData.condition \in {"bearish", "neutral", "bullish"}
          /\ marketData.trend \in {"up", "down", "sideways"}

\* the quotes failed and the default data came back
C13_Witness ==
    /\ gpc = "done"
    /\ pc = "idle"
    /\ historicalStatus = None
    /\ vixValue = 0
    /\ marketData = defaultMarketData

(***************************************************************************)
(* The advisor.                                                            *)
(***************************************************************************)
Occurs(event) == \E i \in 1..Len(calls) : calls[i] = event

\* C20: the advisor calls the Gemini provider first and the Anthropic
\* provider only after the Gemini call has failed; it returns the response
\* of the first provider that succeeds; when both fail it resolves with a
\* response of type topic and topic error; it never rejects.
C20_GeminiFirstThenAnthropic ==
    /\ calls # <<>> => calls[1] = "gemini:call"
    /\ \A i \in 1..Len(calls) :
          calls[i] = "anthropic:call" => i > 1 /\ calls[i - 1] = "gemini:fail"
    /\ advice.settled # "rejected"
    /\ vpc = "done" =>
          /\ advice.settled = "resolved"
          /\ advice.type \in ResponseTypes
          /\ Occurs("gemini:ok") =>
                advice.source = "gemini" /\ ~Occurs("anthropic:call")
          /\ Occurs("gemini:fail") /\ Occurs("anthropic:ok") =>
                advice.source = "anthropic" /\ advice.topic # "error"
          /\ Occurs("gemini:fail") /\ Occurs("anthropic:fail") =>
                advice.type = "topic" /\ advice.topic = "error"

\* both providers failed
C20_Witness ==
    /\ vpc = "done"
    /\ calls = <<"gemini:call", "gemini:fail", "anthropic:call", "anthropic:fail">>
    /\ advice.topic = "error"
    /\ advice.keyPoints = <<"aggressive", "bearish">>

(***************************************************************************)
(* The vote of determineMarketCondition, continued.                        *)
(***************************************************************************)
SignalTypes == {"vix", "prediction", "sentiment", "current"}

SignalsWith(l) == Cardinality({t \in SignalTypes : signals[t] = l})

\* C25: determineMarketCondition returns bullish (bearish) only if at least
\* two of the four signals are bullish (bearish); a single signal, the
\* 1.5-weight trend signal included, never decides a non-neutral result.
C25_NoSingleSignalDecides ==
    Classified =>
        /\ condition = "bullish" => SignalsWith("bullish") >= 2
        /\ condition = "bearish" => SignalsWith("bearish") >= 2

\* the trend signal alone is bullish and the result is neutral
C25_Witness ==
    /\ Classified
    /\ signals = [vix |-> "neutral", prediction |-> "bullish",
                  sentiment |-> "neutral", current |-> "neutral"]
    /\ condition = "neutral"

(***************************************************************************)
(* The portfolio protocol.                                                 *)
(***************************************************************************)
Dispatched == last.op = "dispatch"

Uncalled(l) ==
    Cardinality({h \in 1..Len(handles) : handles[h].listener = l /\ ~handles[h].called})

\* C22: subscribe(l) invokes l exactly once, immediately, with the current
\* state, and returns an unsubscribe function; once that function has been
\* called no later dispatch invokes l for that subscription, and calling it
\* again has no further effect on the other subscriptions: a subscription
\* is in the listeners array exactly as long as its unsubscribe function has
\* not been called.
C22_SubscribeAndUnsubscribe ==
    /\ last.op = "subscribe" =>
          /\ last.invoked = <<handles[last.handle].listener>>
          /\ last.delivered = getState(pmodel, pcontext)
          /\ listeners = Append(last.start, handles[last.handle].listener)
    /\ \A l \in Listeners : Occurrences(listeners, l) = Uncalled(l)
    /\ (last.op = "unsubscribe" /\ last.again) => listeners = last.start

(***************************************************************************)
(* The model operations behind dispatch.                                   *)
(***************************************************************************)
AssetIds(m) == {m.assets[i].id : i \in 1..Len(m.assets)}

\* C23: after a dispatch of OPTIMIZE_PORTFOLIO with market condition c the
\* context's market condition is c, baseAllocation and currentAllocation
\* both equal calculateOptimalAllocation(model.riskProfile, c), every asset
\* has the new bucket of its type, and userId, riskProfile, the set of asset
\* ids, userAge and userGoals are what they were.
C23_OptimizeFrame ==
    (Dispatched /\ last.type = "OPTIMIZE_PORTFOLIO") =>
        LET c == last.action.marketCondition
            optimal == calculateOptimalAllocation(pmodel.riskProfile, c)
        IN  /\ pcontext.marketCondition = c
            /\ pmodel.baseAllocation = optimal
            /\ pmodel.currentAllocation = optimal
            /\ \A i \in 1..Len(pmodel.assets) :
                  pmodel.assets[i].allocation = optimal[pmodel.assets[i].type]
            /\ pmodel.userId = last.pre.model.userId
            /\ pmodel.riskProfile = last.pre.model.riskProfile
            /\ AssetIds(pmodel) = AssetIds(last.pre.model)
            /\ Len(pmodel.assets) = Len(last.pre.model.assets)
            /\ pcontext.userAge = last.pre.context.userAge
            /\ pcontext.userGoals = last.pre.context.userGoals

\* a conservative portfolio with a second equity asset and an updated debt
\* asset is optimized for a bearish market
C23_Witness ==
    /\ Dispatched
    /\ last.type = "OPTIMIZE_PORTFOLIO"
    /\ last.action.marketCondition = "bearish"
    /\ pmodel.riskProfile = "conservative"
    /\ pmodel.baseAllocation = Buckets(15, 53, 20, 12)
    /\ Len(pmodel.assets) = 5
    /\ last.pre.model.currentAllocation.debt = 40
    /\ last.pre.context.marketCondition = "bullish"

\* C26: for a protocol created from createPortfolioModel with the default
\* allocations and createDefaultContext, after any sequence of
\* OPTIMIZE_PORTFOLIO and CHANGE_RISK_PROFILE dispatches model.baseAllocation
\* equals calculateOptimalAllocation(model.riskProfile, context.marketCondition).
C26_ModelConsistentWithContext ==
    pmodel.baseAllocation =
        calculateOptimalAllocation(pmodel.riskProfile, pcontext.marketCondition)

(***************************************************************************)
(* Listeners that unsubscribe while they are notified.                     *)
(***************************************************************************)
\* C27: when one listener calls its own unsubscribe function while a
\* dispatch notifies it, every other listener that was subscribed when the
\* dispatch started is still invoked exactly once for that dispatch (once
\* for each of its subscriptions).
C27_OthersStillNotified ==
    (Dispatched /\ last.type \in KnownActions /\ Cardinality(last.unsubscribing) = 1) =>
        \A l \in Listeners \ last.unsubscribing :
            Occurrences(last.invoked, l) = Occurrences(last.start, l)

(***************************************************************************)
(* The file system model.                                                  *)
(***************************************************************************)
\* C24: in every model reachable from createInitialModel() by model
\* operations, deleteEntity applied to the id of a directory removes the
\* directory and everything under its path: afterwards no entity has a path
\* that starts with the directory's path followed by '/'.
C24_DeleteRemovesContents ==
    (fsLast.op = "delete" /\ fsLast.type = "directory" /\ ~fsLast.threw) =>
        /\ ~hasKey(entities, fsLast.id)
        /\ \A k \in 1..Len(entities) : ~startsWithSlash(entities[k].path, fsLast.path)

(***************************************************************************)
(* MemStorage.                                                             *)
(***************************************************************************)
\* C28: MemStorage gives read-your-writes: once createUser has resolved
\* with id i, every later getUser(i) returns that user and getAllUsers
\* contains it, under every interleaving with the constructor's un-awaited
\* loadData.
C28_ReadYourWrites ==
    /\ lastRead.op = "getUser" =>
          \A p \in lastRead.expected : p[1] = lastRead.id => lastRead.result = p[2]
    /\ lastRead.op = "getAllUsers" => lastRead.expected \subseteq lastRead.users
====
